---- MODULE Spec2Model ----
(***************************************************************************)
(* Sandbox lifecycle of firebox, coupled to the container runtime.         *)
(*                                                                         *)
(* Two implementations live side by side in the repository and share one   *)
(* runtime and one container naming scheme:                                *)
(*   kind "Sandbox"        firebox/sandbox.py            (init, close,     *)
(*                         reconnect, communicate)                         *)
(*   kind "DockerSandbox"  firebox/sandbox/docker_sandbox.py, driven by    *)
(*                         the Sandbox facade of firebox/sandbox/main.py   *)
(*                         (open, close, reconnect)                        *)
(* A step of the model is the code between two suspension points of the    *)
(* asyncio event loop (an await that really yields).                       *)
(*                                                                         *)
(* Spec follows objects of firebox/sandbox.py, SpecDocker objects of       *)
(* main.py over docker_sandbox.py, SpecMixed one object of each on the     *)
(* same runtime and sandbox id.                                            *)
(***************************************************************************)
EXTENDS Integers, Sequences, FiniteSets, TLC

\* ------------------------------------------------------------- bounds
MaxCid == 2        \* containers the runtime creates in one behaviour
MaxTicks == 2      \* clock ticks (one per probe iteration) a readiness wait is followed
MaxMsgs == 3       \* messages added to one ProcessOutput
MaxTs == 2         \* largest timestamp of a message
MaxNeed == 3       \* ticks a command takes at most; timeouts range over the same ticks
MaxOut == 2        \* chunks of output a command writes at most
MaxCalls == 2      \* wait()/get_result() calls made on one process handle
MaxWaitTicks == 2  \* the clock of a wait() is followed this far
GracePolls == 1    \* polls the streamer keeps reading after it saw the exit-code file
MaxMeta == 1       \* times the size or modification time of one directory entry changes
MaxTasks == 3      \* add_task calls made on the cleanup manager
MaxText == 2       \* length of a text given to write
MaxClock == 2      \* milliseconds the clock read by start advances
MaxIter == 3       \* iterations a background loop is followed for
MaxEvents == 2     \* events a user callback is invoked for
MaxChunks == 3     \* chunks of one build stream
MaxStarts == 3     \* calls of TerminalManager.start that are followed
MaxIds == 3        \* request ids the id generator gives out

\* ---------------------------------------------------------- vocabulary
None == <<>>                          \* Python None; an optional value is <<>> or <<v>>
Some(v) == <<v>>
Objs == {"s1", "s2"}                  \* Sandbox objects of the Python process
Ids == {<<"a">>}                      \* sandbox ids handed to the constructors
Files == {"f"}                        \* file names in a sandbox cwd
Names == {"f", "g"}                   \* entries of a watched directory
IsDirName(n) == n = "g"               \* g is a directory, f a regular file
Listeners == {"l1", "l2"}             \* callables given to add_event_listener
Tasks == {"t1", "t2"}                 \* callables given to CleanupManager.add_task
\* the clock counts milliseconds since 1970: at the start of the program it
\* is beyond every pid the kernel gives out
Epoch == 4
Procs == {"p1", "p2"}                 \* start() calls made on one ProcessManager
Senders == {"c1", "c2"}               \* threads that call send_message
Replies == {"Ok", "Error"}            \* what to_response_or_notification makes of a reply
TerminalIds == {None, Some("t1"), Some("t2")}   \* terminal_id given to start
ContainerPorts == {80, 443}           \* ports a service listens on in the container
HostPorts == {80, 8080}               \* ports of the host to publish them on
Builders == {"AsyncDockerAdapter", "DockerImageBuilder"}  \* the two build_image
ImageIds == {"sha256:1", "sha256:2"}
\* the places that invoke a user callback
Sites == {"on_stdout", "on_stderr", "on_exit", "on_scan_ports", "listener"}
CallbackKinds == {"def", "async def"}       \* how the user defined the callback
Dirs == {"/tmp", "/missing"}              \* the cwd given to start
BgTasks == {"_stream_output", "port_scanner"}
\* what can go wrong in one iteration: the exec raises, its result is not what
\* the loop parses, or the user callback raises
Faults == {"", "exec", "parse", "callback"}
Chars == {"a", " ", "\n", "'"}         \* characters of a text given to write
Whitespace == {" ", "\n"}             \* what str.strip() removes, among Chars
Impls == {"FilesystemManager", "Filesystem"}  \* filesystem/main.py and filesystem.py
Kinds == {"Sandbox", "DockerSandbox"} \* the two implementations
Timeouts == {None, Some(0), Some(1)}  \* timeout argument of open(), in ticks

container_prefix == "fireenv-sandbox"
ContainerName(id) == <<container_prefix>> \o id
CNames == {ContainerName(i) : i \in Ids}

\* host paths are sequences of components; "/" first marks an absolute path
HostCwd == <<"/", "work">>
Abspath(p) == IF p[1] = "/" THEN p ELSE HostCwd \o SelectSeq(p, LAMBDA c : c # ".")
persistent_storage_path == <<".", "sandbox_data">>
SandboxCwd == "/sandbox"              \* DockerSandboxConfig.cwd
LegacyCwd == "/home/user"             \* SandboxConfig.cwd

\* user-supplied volumes mappings: host path -> [bind, mode]
NoVolumes == [p \in {} |-> [bind |-> "", mode |-> ""]]
OtherVolume == [p \in {<<"/", "other">>} |-> [bind |-> "/mnt", mode |-> "ro"]]
SamePathVolume == [p \in {Abspath(persistent_storage_path)} |-> [bind |-> "/mnt", mode |-> "ro"]]
UserVolumes == {NoVolumes, OtherVolume, SamePathVolume}

VARIABLES
  containers,   \* runtime: container name -> None or Some([cid, status, volumes, files]),
                \* files being those of LegacyCwd in the container's own filesystem
  nextCid,      \* runtime: id the next created container gets
  sb,           \* object -> None (not constructed) or Some([kind, id]) of the object
  handle,       \* object -> self.container: None or Some([cid]), the container it refers to
  pc,           \* object -> where its running init/open is suspended
  timeout,      \* object -> timeout argument of the running open
  elapsed,      \* object -> ticks since its readiness wait began
  scanner,      \* object -> its port scanner task is alive
  cwdAtClose,   \* history: sandbox id -> cwd contents of the container a close removed
  initialised,  \* history: object -> an init or reconnect of firebox/sandbox.py has
                \* returned normally on it
  last          \* history: the call (or step of a call) that ran last and its outcome

lifecycleVars == <<containers, nextCid, sb, handle, pc, timeout, elapsed, scanner,
                   cwdAtClose, initialised, last>>

VARIABLES
  messages,     \* ProcessOutput.messages: sequence of [line, timestamp]
  error,        \* ProcessOutput.error
  added         \* history: the messages given to _add_stdout/_add_stderr, in call order

outputVars == <<messages, error, added>>

VARIABLES
  call          \* the communicate call in progress: None or Some([kind, timeout, need,
                \* elapsed, res]); need is the time the command takes, elapsed the time
                \* the caller has been suspended in the call

execVars == <<call>>

VARIABLES
  job,          \* the background job of ProcessManager.start in the container:
                \* [phase, code, out]; out counts the chunks in its output file
  rp,           \* the RunningProcess handle: None or Some([on_stdout, on_stderr, on_exit])
  caller,       \* the coroutine using the handle: [pc, op, timeout, elapsed, stdout, calls]
  stream,       \* the _stream_output task: [pc, last_size, current_size, completion]
  callbacks,    \* history: the user callbacks invoked, in order, as [cb, arg]
  killed,       \* history: kill() was called while the command was running
  plast         \* history: the call on the handle that ended last and its outcome

procVars == <<job, rp, caller, stream, callbacks, killed, plast>>

VARIABLES
  dir,          \* the watched directory: name -> None or Some([is_dir, meta]), meta
                \* standing for the size and modification time ls -la prints
  watcher,      \* the Watcher: [unsubscribe, listeners]; unsubscribe tells whether
                \* self._unsubscribe is set
  wtask,        \* the poll_changes task: [state, previous_state]
  cycle,        \* history: the last poll cycle, [listeners, emitted, failed]: the
                \* listeners registered when it ran, the events it gave to the
                \* handler, and whether its exec failed
  delivered,    \* history: the listener invocations, in order, as [listener, event]
  kept,         \* history: the names present at start() and not removed since
  atStart,      \* history: the names present at start()
  wlast         \* history: the start() or stop() that ended last and its outcome

watchVars == <<dir, watcher, wtask, cycle, delivered, kept, atStart, wlast>>

VARIABLES
  cleanup_tasks,  \* CleanupManager.cleanup_tasks: the registered tasks, in order
  cleaning,       \* the cleanup() in progress: None or Some(i), i the position in
                  \* cleanup_tasks of the task it runs next, 0 when it is through
  ran,            \* history: the tasks the last cleanup() ran, in order, as [task, raised]
  atCall          \* history: cleanup_tasks when the last cleanup() was called

cleanupVars == <<cleanup_tasks, cleaning, ran, atCall>>

VARIABLES
  node,         \* what is at the path the filesystem calls name, in the container:
                \* None, Some([kind |-> "dir"]) or Some([kind |-> "file", content])
  flast         \* history: the filesystem call that ran last: [op, impl, arg, res, was],
                \* res its result or the exception it raised, was the node before it

fsVars == <<node, flast>>

VARIABLES
  now,          \* int(time.time() * 1000), the clock start reads
  handles,      \* process -> None or Some([pid, process_id, phase, code, cwd]): the handle a
                \* start made and the command it launched
  exit_files,   \* process_id -> None or Some(code): the file /tmp/process_{id}_exit_code
  seen,         \* history: process -> None or Some(code), the exit code last read
                \* through its handle
  retrieved     \* process -> None or Some([pid, process_id]): the handle that
                \* ProcessManager.get made for its pid

idVars == <<now, handles, exit_files, seen, retrieved>>

VARIABLES
  bg,           \* background task -> [state, iterations, exception, calls]: the
                \* loops started with asyncio.create_task and never awaited
  bglast        \* history: [task, fault] of the last iteration that ran

bgVars == <<bg, bglast>>

VARIABLES
  registered,   \* call site -> "" or the kind of the callback given: "def", "async def"
  invoked,      \* history: call site -> times the callback was invoked
  completed     \* history: call site -> times its body ran to completion

cbVars == <<registered, invoked, completed>>

VARIABLES
  building      \* one build_image call: [impl, phase, chunks, image_id, docker_error, res]

buildVars == <<building>>

VARIABLES
  new_sandbox,       \* the NewSandbox being filled in: [ports], ports a sequence of
                     \* <<key, value>> in the insertion order of the dict
  container_config   \* None or Some([ports, ExposedPorts, PortBindings]): the request
                     \* create_sandbox was given and the config it made of it

portVars == <<new_sandbox, container_config>>

VARIABLES
  terminals     \* history: the calls of TerminalManager.start, in order, each with
                \* what it made of its futures, subscriptions and callbacks

termVars == <<terminals>>

VARIABLES
  rpc,          \* the SandboxRpc: [next_id, waiting_for_replies, closed], the dict as
                \* the set of its keys
  futures,      \* request id -> the DeferredFuture made for it: [state, by], by the
                \* id of the reply that resolved it
  senders,      \* thread -> its send_message call: [pc, id, outcome]
  reader        \* the process_messages thread: [pc, message]

rpcVars == <<rpc, futures, senders, reader>>

\* what the actions of one part of the program leave alone
notLifecycle == <<outputVars, execVars, procVars, watchVars, cleanupVars, fsVars, idVars, bgVars, cbVars, buildVars, portVars, termVars, rpcVars>>
notOutput == <<lifecycleVars, execVars, procVars, watchVars, cleanupVars, fsVars, idVars, bgVars, cbVars, buildVars, portVars, termVars, rpcVars>>
notExec == <<lifecycleVars, outputVars, procVars, watchVars, cleanupVars, fsVars, idVars, bgVars, cbVars, buildVars, portVars, termVars, rpcVars>>
notProc == <<lifecycleVars, outputVars, execVars, watchVars, cleanupVars, fsVars, idVars, bgVars, cbVars, buildVars, portVars, termVars, rpcVars>>
notWatch == <<lifecycleVars, outputVars, execVars, procVars, cleanupVars, fsVars, idVars, bgVars, cbVars, buildVars, portVars, termVars, rpcVars>>
notCleanup == <<lifecycleVars, outputVars, execVars, procVars, watchVars, fsVars, idVars, bgVars, cbVars, buildVars, portVars, termVars, rpcVars>>
notFs == <<lifecycleVars, outputVars, execVars, procVars, watchVars, cleanupVars, idVars, bgVars, cbVars, buildVars, portVars, termVars, rpcVars>>
notId == <<lifecycleVars, outputVars, execVars, procVars, watchVars, cleanupVars, fsVars, bgVars, cbVars, buildVars, portVars, termVars, rpcVars>>
notBg == <<lifecycleVars, outputVars, execVars, procVars, watchVars, cleanupVars, fsVars, idVars,
          cbVars, buildVars, portVars, termVars, rpcVars>>
notCb == <<lifecycleVars, outputVars, execVars, procVars, watchVars, cleanupVars, fsVars, idVars,
          bgVars, buildVars, portVars, termVars, rpcVars>>
notBuild == <<lifecycleVars, outputVars, execVars, procVars, watchVars, cleanupVars, fsVars, idVars,
             bgVars, cbVars, portVars, termVars, rpcVars>>
notPort == <<lifecycleVars, outputVars, execVars, procVars, watchVars, cleanupVars, fsVars, idVars,
            bgVars, cbVars, buildVars, termVars, rpcVars>>
notTerm == <<lifecycleVars, outputVars, execVars, procVars, watchVars, cleanupVars, fsVars, idVars,
            bgVars, cbVars, buildVars, portVars, rpcVars>>
notRpc == <<lifecycleVars, outputVars, execVars, procVars, watchVars, cleanupVars, fsVars, idVars,
           bgVars, cbVars, buildVars, portVars, termVars>>

vars == <<lifecycleVars, outputVars, execVars, procVars, watchVars, cleanupVars, fsVars,
          idVars, bgVars, cbVars, buildVars, portVars, termVars, rpcVars>>

\* ------------------------------------------------------------- runtime
\* the container a handle refers to is looked up by its container id
CidLive(cs, cid) == \E n \in CNames : cs[n] # None /\ cs[n][1].cid = cid
NameOfCid(cs, cid) == CHOOSE n \in CNames : cs[n] # None /\ cs[n][1].cid = cid
CidRunning(cs, cid) == CidLive(cs, cid) /\ cs[NameOfCid(cs, cid)][1].status = "running"

\* containers.get(name): the container of that name, None for NotFound
\* (GetNotFound: the lookup never finds the container)
GetNotFound(cs, name) == None
Get(cs, name) == cs[name]

\* container.remove(v=True, force=True) of a live container
\* (StopOnly: the container is stopped and kept)
StopOnly(cs, n) == [cs EXCEPT ![n][1].status = "exited"]
ForceRemove(cs, n) == [cs EXCEPT ![n] = None]

\* self.container = None
\* (KeepHandle: the assignment is forgotten)
KeepHandle(h, o) == h
DropHandle(h, o) == [h EXCEPT ![o] = None]

\* the name under which an object's container is looked up
NameOf(o) == ContainerName(sb[o][1].id)

\* DockerSandbox.is_running, on the runtime's view of the handle's container
is_running(cs, h, o) == h[o] # None /\ CidRunning(cs, h[o][1].cid)

\* Python truthiness of an Optional[float] timeout: None and 0 are falsy
Truthy(t) == t # None /\ t[1] # 0

\* exception classes of the two implementations
ErrSandbox(kind) == IF kind = "Sandbox" THEN "SandboxError" ELSE "SandboxException"
ErrCreate(kind) == IF kind = "Sandbox" THEN "APIError" ELSE "SandboxException"
ErrStatus(kind) == IF kind = "Sandbox" THEN "RuntimeError" ELSE "SandboxException"

\* ------------------------------------------------------- configuration
\* DockerSandbox.init: the bind of the persistent storage, then the user's volumes
DockerVolumes(userVolumes) ==
  LET own == Abspath(persistent_storage_path)
  IN [p \in {own} \cup DOMAIN userVolumes |->
        IF p \in DOMAIN userVolumes THEN userVolumes[p]
        ELSE [bind |-> SandboxCwd, mode |-> "rw"]]

\* volumes= argument of containers.run for an object of either kind, from
\* config.volumes as the caller has set it when init runs
RunVolumes(kind, userVolumes) ==
  IF kind = "DockerSandbox" THEN DockerVolumes(userVolumes) ELSE userVolumes

\* Sandbox.reconnect builds SandboxConfig(sandbox_id=id): every other field default
ReconnectVolumes == NoVolumes

\* ------------------------------------------------ acquiring a container
\* The synchronous part of init: containers.get by name, containers.run when
\* that raises NotFound, start when the handle's status is not "running",
\* reload and the status check.  env is how the runtime answers: "run" and
\* "start" reject that call, "exit" has the container exited at the reload,
\* "ok" lets every call through.  err is "" when the part completes.
\* calls records the calls that change the runtime.  The status the handle
\* caches (the found container's status, "created" after run) decides the start.
AcquireContainer(cs, nc, h, cfg, userVolumes, env) ==
  LET name == ContainerName(cfg.id)
      found == Get(cs, name) # None
      fresh == [cid |-> nc, status |-> "running",
                volumes |-> RunVolumes(cfg.kind, userVolumes), files |-> {}]
      cs1 == IF found THEN cs ELSE [cs EXCEPT ![name] = Some(fresh)]
      nc1 == IF found THEN nc ELSE nc + 1
      h1 == Some([cid |-> cs1[name][1].cid])
      cached == IF found THEN cs[name][1].status ELSE "created"
      needStart == cached # "running"
      cs2 == IF needStart THEN [cs1 EXCEPT ![name][1].status = "running"] ELSE cs1
      cs3 == IF env # "exit" THEN cs2 ELSE [cs2 EXCEPT ![name][1].status = "exited"]
      lookup == IF found THEN {} ELSE {"run"}
      calls == IF needStart THEN lookup \cup {"start"} ELSE lookup
  IN IF ~found /\ env = "run"
       THEN [err |-> ErrCreate(cfg.kind), cs |-> cs, nc |-> nc, h |-> h, calls |-> lookup]
     ELSE IF needStart /\ env = "start"
       THEN [err |-> ErrCreate(cfg.kind), cs |-> cs1, nc |-> nc1, h |-> h1, calls |-> calls]
     ELSE IF env = "exit"
       THEN [err |-> ErrStatus(cfg.kind), cs |-> cs3, nc |-> nc1, h |-> h1, calls |-> calls]
     ELSE [err |-> "", cs |-> cs3, nc |-> nc1, h |-> h1, calls |-> calls]

\* the runtime's answers to an init, with the volumes the configuration names;
\* the volumes are read only when a container is created
RuntimeAnswers == {"build", "run", "start", "exit", "ok"}
InitInputs(cfg, volumeChoices) ==
  {in \in [env : RuntimeAnswers, volumes : volumeChoices] :
     /\ (containers[ContainerName(cfg.id)] # None \/ in.env \in {"build", "run"})
           => in.volumes = NoVolumes
     \* a run the runtime accepts stays within the model's bound
     /\ containers[ContainerName(cfg.id)] # None \/ in.env \in {"build", "run"} \/ nextCid <= MaxCid}

\* the record of a call: what reached its caller (res), the runtime calls it
\* issued, the exception of the inner call that failed, and its argument
Did(op, o, res, calls) ==
  [op |-> op, o |-> o, res |-> res, calls |-> calls, inner |-> "", arg |-> None]
DidArg(op, o, res, calls, arg) == [Did(op, o, res, calls) EXCEPT !.arg = arg]
ArgOf(o, op) == IF op = "reconnect" THEN Some(sb[o][1].id) ELSE None

\* --------------------------------------------------------------- Init
Init ==
  /\ containers = [n \in CNames |-> None]
  /\ nextCid = 1
  /\ sb = [o \in Objs |-> None]
  /\ handle = [o \in Objs |-> None]
  /\ pc = [o \in Objs |-> "idle"]
  /\ timeout = [o \in Objs |-> None]
  /\ elapsed = [o \in Objs |-> 0]
  /\ scanner = [o \in Objs |-> FALSE]
  /\ cwdAtClose = [i \in Ids |-> {}]
  /\ initialised = [o \in Objs |-> FALSE]
  /\ messages = <<>> /\ error = FALSE /\ added = <<>>
  /\ call = None
  /\ job = [phase |-> "none", code |-> 0, out |-> 0]
  /\ rp = None
  /\ caller = [pc |-> "none", op |-> "", timeout |-> None, elapsed |-> 0,
               stdout |-> 0, calls |-> 0]
  /\ stream = [pc |-> "none", last_size |-> 0, current_size |-> 0, completion |-> None]
  /\ callbacks = <<>>
  /\ killed = FALSE
  /\ plast = [op |-> "", res |-> "", exit_code |-> None, stdout |-> 0]
  /\ dir = [n \in Names |-> None]
  /\ watcher = [unsubscribe |-> FALSE, listeners |-> {}]
  /\ wtask = [state |-> "none", previous_state |-> {}]
  /\ cycle = [listeners |-> {}, emitted |-> {}, failed |-> FALSE]
  /\ delivered = <<>>
  /\ kept = {}
  /\ atStart = {}
  /\ wlast = [op |-> "", res |-> ""]
  /\ cleanup_tasks = <<>> /\ cleaning = None /\ ran = <<>> /\ atCall = <<>>
  /\ node = None
  /\ now = 0
  /\ handles = [p \in Procs |-> None]
  /\ exit_files = [i \in 0..(Epoch + MaxClock) |-> None]
  /\ seen = [p \in Procs |-> None]
  /\ retrieved = [p \in Procs |-> None]
  /\ bg = [t \in BgTasks |-> [state |-> "none", iterations |-> 0, exception |-> "", calls |-> 0]]
  /\ bglast = [task |-> "", fault |-> ""]
  /\ registered = [c \in Sites |-> ""]
  /\ invoked = [c \in Sites |-> 0]
  /\ completed = [c \in Sites |-> 0]
  /\ terminals = <<>>
  /\ rpc = [next_id |-> 1, waiting_for_replies |-> {}, closed |-> FALSE]
  /\ futures = [id \in 1..MaxIds |-> [state |-> "none", by |-> 0]]
  /\ senders = [t \in Senders |-> [pc |-> "idle", id |-> 0, outcome |-> ""]]
  /\ reader = [pc |-> "get", message |-> [kind |-> "", id |-> 0]]
  /\ new_sandbox = [ports |-> <<>>]
  /\ container_config = None
  /\ building = [impl |-> "", phase |-> "idle", chunks |-> <<>>, image_id |-> None,
                 docker_error |-> FALSE, res |-> [err |-> "", value |-> <<>>]]
  /\ flast = [op |-> "", impl |-> "", arg |-> <<>>, res |-> [err |-> "", value |-> <<>>],
             was |-> None]
  /\ last = Did("start", "cls", "ok", {})

\* __init__ of either class: the object takes the id its configuration names
Construct(o, kind) ==
  /\ sb[o] = None
  /\ \E id \in Ids : sb' = [sb EXCEPT ![o] = Some([kind |-> kind, id |-> id])]
  /\ last' = Did("construct", o, "ok", {})
  /\ UNCHANGED <<containers, nextCid, handle, pc, timeout, elapsed, scanner, cwdAtClose, initialised>>
  /\ UNCHANGED notLifecycle

\* ------------------------------------------- firebox/sandbox.py Sandbox
\* Sandbox.init up to its first suspension (the first init script's exec):
\* build, get or run, start, reload, ensure_container_ready

SandboxInitFrom(o, cfg, volumeChoices, op) ==
  \E in \in InitInputs(cfg, volumeChoices) :
    /\ LET a == AcquireContainer(containers, nextCid, handle[o], cfg, in.volumes, in.env)
           arg == IF op = "reconnect" THEN Some(cfg.id) ELSE None
       IN IF in.env = "build"
            THEN /\ last' = DidArg(op, o, "SandboxError", {}, arg)
                 /\ UNCHANGED <<containers, nextCid, handle, pc>>
          ELSE /\ containers' = a.cs
               /\ nextCid' = a.nc
               /\ handle' = [handle EXCEPT ![o] = a.h]
               /\ IF a.err # ""
                    THEN /\ last' = DidArg(op, o, a.err, a.calls, arg)
                         /\ UNCHANGED pc
                    ELSE /\ last' = DidArg(op, o, "pending", a.calls, arg)
                         /\ pc' = [pc EXCEPT ![o] = IF op = "reconnect" THEN "rscripts" ELSE "scripts"]

SandboxInit(o) ==
  /\ sb[o] # None /\ sb[o][1].kind = "Sandbox" /\ pc[o] = "idle"
  /\ SandboxInitFrom(o, sb[o][1], {NoVolumes, OtherVolume}, "init")
  /\ UNCHANGED <<sb, timeout, elapsed, scanner, cwdAtClose, initialised>>
  /\ UNCHANGED notLifecycle

\* Sandbox._init_scripts: four execs whose results are not read; an exec that
\* raises (no such container, container not running) ends init with SandboxError

SandboxInitScripts(o) ==
  /\ pc[o] \in {"scripts", "rscripts"}
  /\ LET op == IF pc[o] = "rscripts" THEN "reconnect" ELSE "init"
         ok == CidRunning(containers, handle[o][1].cid)
     IN /\ last' = DidArg(op, o, IF ok THEN "ok" ELSE "SandboxError", {}, ArgOf(o, op))
        /\ initialised' = [initialised EXCEPT ![o] = @ \/ ok]
  /\ pc' = [pc EXCEPT ![o] = "idle"]
  /\ UNCHANGED <<containers, nextCid, sb, handle, timeout, elapsed, scanner, cwdAtClose>>
  /\ UNCHANGED notLifecycle

\* Sandbox.close: container.remove(v=True, force=True) through the handle;
\* NotFound is swallowed, another APIError becomes SandboxError, and the
\* handle is dropped in every case

SandboxClose(o) ==
  /\ sb[o] # None /\ sb[o][1].kind = "Sandbox" /\ pc[o] = "idle"
  /\ IF handle[o] = None
       THEN /\ last' = Did("close", o, "ok", {})
            /\ UNCHANGED <<containers, cwdAtClose>>
     ELSE IF ~CidLive(containers, handle[o][1].cid)
       THEN /\ last' = [Did("close", o, "ok", {"remove"}) EXCEPT !.inner = "NotFound"]
            /\ UNCHANGED <<containers, cwdAtClose>>
     ELSE \E removeOk \in BOOLEAN :
            LET n == NameOfCid(containers, handle[o][1].cid)
            IN IF removeOk
                 THEN /\ containers' = ForceRemove(containers, n)
                      /\ cwdAtClose' = [cwdAtClose EXCEPT ![sb[o][1].id] = containers[n][1].files]
                      /\ last' = Did("close", o, "ok", {"remove"})
               ELSE /\ last' = Did("close", o, "SandboxError", {"remove"})
                    /\ UNCHANGED <<containers, cwdAtClose>>
  /\ handle' = DropHandle(handle, o)
  /\ UNCHANGED <<nextCid, sb, pc, timeout, elapsed, scanner, initialised>>
  /\ UNCHANGED notLifecycle

\* Sandbox.reconnect(sandbox_id): a new object with a default configuration, then init

SandboxReconnect(o) ==
  /\ sb[o] = None
  /\ \E id \in Ids :
       /\ sb' = [sb EXCEPT ![o] = Some([kind |-> "Sandbox", id |-> id])]
       /\ SandboxInitFrom(o, [kind |-> "Sandbox", id |-> id], {ReconnectVolumes}, "reconnect")
  /\ UNCHANGED <<timeout, elapsed, scanner, cwdAtClose, initialised>>
  /\ UNCHANGED notLifecycle

\* communicate(command) of either class: exec_run through the handle with
\* workdir = cwd.  "touch" creates file f in the cwd, "cat" reads it; they are
\* run through Sandbox.communicate, whose cwd is LegacyCwd.

Commands(kind) == IF kind = "Sandbox" THEN {"touch", "cat"} ELSE {"echo"}
Communicate(o) ==
  /\ sb[o] # None /\ pc[o] = "idle"
  /\ \E cmd \in Commands(sb[o][1].kind), f \in Files :
       IF handle[o] # None /\ CidRunning(containers, handle[o][1].cid)
         THEN LET n == NameOfCid(containers, handle[o][1].cid)
              IN /\ containers' = IF cmd = "touch"
                                    THEN [containers EXCEPT ![n][1].files = @ \cup {f}]
                                    ELSE containers
                 /\ last' = Did(cmd, o, IF cmd = "cat" /\ f \notin containers[n][1].files
                                          THEN "exit1" ELSE "exit0", {})
       ELSE /\ last' = Did(cmd, o, ErrSandbox(sb[o][1].kind), {})
            /\ UNCHANGED containers
  /\ UNCHANGED <<nextCid, sb, handle, pc, timeout, elapsed, scanner, cwdAtClose, initialised>>
  /\ UNCHANGED notLifecycle

\* ------------------- firebox/sandbox/main.py Sandbox over DockerSandbox
\* What reaches the caller of Sandbox.open when a step of its pipeline raises
\* `inner`: the handler awaits self.close(), which calls the close method
\* DockerSandbox does not have, so AttributeError leaves the handler

OpenFails(o, inner, calls) ==
  [Did("open", o, "AttributeError", calls) EXCEPT !.inner = inner]

\* Sandbox.open(timeout) up to the first suspension of DockerSandbox.init:
\* makedirs, build, get or run, start, reload
Open(o) ==
  /\ sb[o] # None /\ sb[o][1].kind = "DockerSandbox" /\ pc[o] = "idle"
  /\ \E t \in Timeouts, in \in InitInputs(sb[o][1], UserVolumes) :
       /\ LET a == AcquireContainer(containers, nextCid, handle[o], sb[o][1], in.volumes, in.env)
          IN IF in.env = "build"
               THEN /\ last' = OpenFails(o, "SandboxException", {})
                    /\ UNCHANGED <<containers, nextCid, handle, pc, timeout, elapsed>>
             ELSE /\ containers' = a.cs
                  /\ nextCid' = a.nc
                  /\ handle' = [handle EXCEPT ![o] = a.h]
                  /\ IF a.err # ""
                       THEN /\ last' = OpenFails(o, a.err, a.calls)
                            /\ UNCHANGED <<pc, timeout, elapsed>>
                       ELSE /\ last' = Did("open", o, "pending", a.calls)
                            /\ pc' = [pc EXCEPT ![o] = "probe"]
                            /\ timeout' = [timeout EXCEPT ![o] = t]
                            /\ elapsed' = [elapsed EXCEPT ![o] = 0]
  /\ UNCHANGED <<sb, scanner, cwdAtClose, initialised>>
  /\ UNCHANGED notLifecycle

\* the test at the top of the readiness loop: the overall timeout has expired

Expired(t, e) == Truthy(t) /\ e > t[1]

\* the test that ends the readiness loop
ProbeSucceeded(r) == r.exit_code = 0 /\ r.ready
ProbeResults == [exit_code : {0, 1}, ready : BOOLEAN]

\* One iteration of DockerSandbox._ensure_container_ready: the expiry test,
\* then the probe exec, then either break or sleep.  An exec that raises is
\* swallowed.  The sleep is one tick.
Probe(o) ==
  /\ pc[o] = "probe"
  /\ IF Expired(timeout[o], elapsed[o])
       THEN /\ last' = OpenFails(o, "TimeoutException", {})
            /\ pc' = [pc EXCEPT ![o] = "idle"]
            /\ elapsed' = [elapsed EXCEPT ![o] = 0]
            /\ timeout' = [timeout EXCEPT ![o] = None]
     ELSE \E r \in ProbeResults :
            IF CidRunning(containers, handle[o][1].cid) /\ ProbeSucceeded(r)
              THEN /\ last' = Did("probe", o, "ready", {})
                   /\ pc' = [pc EXCEPT ![o] = "dscripts"]
                   /\ elapsed' = [elapsed EXCEPT ![o] = 0]
                   /\ timeout' = [timeout EXCEPT ![o] = None]
            ELSE /\ elapsed[o] < MaxTicks
                 /\ last' = Did("probe", o, "retry", {})
                 /\ elapsed' = [elapsed EXCEPT ![o] = @ + 1]
                 /\ UNCHANGED <<pc, timeout>>
  /\ UNCHANGED <<containers, nextCid, sb, handle, scanner, cwdAtClose, initialised>>
  /\ UNCHANGED notLifecycle

\* DockerSandbox._init_scripts, the return of DockerSandbox.init, and
\* asyncio.create_task(self._code_snippet.subscribe()), which starts the port
\* scanner task when on_scan_ports was given

OpenInitScripts(o) ==
  /\ pc[o] = "dscripts"
  /\ IF CidRunning(containers, handle[o][1].cid)
       THEN /\ last' = Did("init", o, "ok", {})
            /\ pc' = [pc EXCEPT ![o] = "mkdir"]
            /\ \E on_scan_ports \in BOOLEAN : scanner' = [scanner EXCEPT ![o] = @ \/ on_scan_ports]
     ELSE /\ last' = OpenFails(o, "SandboxException", {})
          /\ pc' = [pc EXCEPT ![o] = "idle"]
          /\ UNCHANGED scanner
  /\ UNCHANGED <<containers, nextCid, sb, handle, timeout, elapsed, cwdAtClose, initialised>>
  /\ UNCHANGED notLifecycle

\* await self._filesystem.make_dir(self.cwd) and the return of Sandbox.open

OpenMakeDir(o) ==
  /\ pc[o] = "mkdir"
  /\ \E exit_code \in {0, 1} :
       IF CidRunning(containers, handle[o][1].cid) /\ exit_code = 0
         THEN /\ last' = Did("open", o, "ok", {})
       ELSE /\ last' = OpenFails(o, "FilesystemException", {})
  /\ pc' = [pc EXCEPT ![o] = "idle"]
  /\ UNCHANGED <<containers, nextCid, sb, handle, timeout, elapsed, scanner, cwdAtClose, initialised>>
  /\ UNCHANGED notLifecycle

\* Sandbox.close of main.py: self._docker_sandbox.close() does not exist

MainClose(o) ==
  /\ sb[o] # None /\ sb[o][1].kind = "DockerSandbox" /\ pc[o] = "idle"
  /\ last' = Did("close", o, "AttributeError", {})
  /\ UNCHANGED <<containers, nextCid, sb, handle, pc, timeout, elapsed, scanner, cwdAtClose, initialised>>
  /\ UNCHANGED notLifecycle

\* DockerSandbox.remove: remove(v=True, force=True) through the handle; an
\* error of the runtime propagates and leaves the handle in place

DockerRemove(o) ==
  /\ sb[o] # None /\ sb[o][1].kind = "DockerSandbox" /\ pc[o] = "idle"
  /\ IF handle[o] = None
       THEN /\ last' = Did("remove", o, "ok", {})
            /\ UNCHANGED <<containers, handle>>
     ELSE IF ~CidLive(containers, handle[o][1].cid)
       THEN /\ last' = Did("remove", o, "NotFound", {"remove"})
            /\ UNCHANGED <<containers, handle>>
     ELSE \E removeOk \in BOOLEAN :
            IF removeOk
              THEN /\ containers' = ForceRemove(containers, NameOfCid(containers, handle[o][1].cid))
                   /\ handle' = DropHandle(handle, o)
                   /\ last' = Did("remove", o, "ok", {"remove"})
            ELSE /\ last' = Did("remove", o, "APIError", {"remove"})
                 /\ UNCHANGED <<containers, handle>>
  /\ UNCHANGED <<nextCid, sb, pc, timeout, elapsed, scanner, cwdAtClose, initialised>>
  /\ UNCHANGED notLifecycle

\* DockerSandbox.stop

DockerStop(o) ==
  /\ sb[o] # None /\ sb[o][1].kind = "DockerSandbox" /\ pc[o] = "idle"
  /\ IF handle[o] = None
       THEN /\ last' = Did("stop", o, "ok", {})
            /\ UNCHANGED containers
     ELSE IF ~CidLive(containers, handle[o][1].cid)
       THEN /\ last' = Did("stop", o, "NotFound", {"stop"})
            /\ UNCHANGED containers
     ELSE /\ containers' = [containers EXCEPT ![NameOfCid(containers, handle[o][1].cid)][1].status = "exited"]
          /\ last' = Did("stop", o, "ok", {"stop"})
  /\ UNCHANGED <<nextCid, sb, handle, pc, timeout, elapsed, scanner, cwdAtClose, initialised>>
  /\ UNCHANGED notLifecycle

\* DockerSandbox.start

DockerStart(o) ==
  /\ sb[o] # None /\ sb[o][1].kind = "DockerSandbox" /\ pc[o] = "idle"
  /\ IF handle[o] = None
       THEN /\ last' = Did("start", o, "ok", {})
            /\ UNCHANGED containers
     ELSE IF ~CidLive(containers, handle[o][1].cid)
       THEN /\ last' = Did("start", o, "NotFound", {"start"})
            /\ UNCHANGED containers
     ELSE /\ containers' = [containers EXCEPT ![NameOfCid(containers, handle[o][1].cid)][1].status = "running"]
          /\ last' = Did("start", o, "ok", {"start"})
  /\ UNCHANGED <<nextCid, sb, handle, pc, timeout, elapsed, scanner, cwdAtClose, initialised>>
  /\ UNCHANGED notLifecycle

\* Sandbox.reconnect(sandbox_id) of main.py: containers.get(sandbox_id) takes
\* the argument as the container's name; a container found is started, and
\* cls(_sandbox=...) then raises TypeError, __init__ having no such parameter

ReconnectArgs == Ids \cup CNames
\* the name containers.get is given
\* (PrefixedTarget: a sandbox id is resolved to its container's name)
PrefixedTarget(arg) == IF arg \in Ids THEN ContainerName(arg) ELSE arg
ReconnectTarget(arg) == arg
MainReconnect ==
  /\ \E arg \in ReconnectArgs :
       IF ReconnectTarget(arg) \in CNames /\ Get(containers, ReconnectTarget(arg)) # None
         THEN /\ containers' = [containers EXCEPT ![ReconnectTarget(arg)][1].status = "running"]
              /\ last' = DidArg("reconnect", "cls", "TypeError",
                                IF containers[ReconnectTarget(arg)][1].status = "running"
                                  THEN {} ELSE {"start"}, Some(arg))
       ELSE /\ last' = DidArg("reconnect", "cls", "SandboxException", {}, Some(arg))
            /\ UNCHANGED containers
  /\ UNCHANGED <<nextCid, sb, handle, pc, timeout, elapsed, scanner, cwdAtClose, initialised>>
  /\ UNCHANGED notLifecycle

\* ---------------------------------------------------------------- Next
\* the objects of firebox/sandbox.py on one runtime
Next ==
  \/ \E o \in Objs : Construct(o, "Sandbox")
  \/ \E o \in Objs : SandboxInit(o)
  \/ \E o \in Objs : SandboxInitScripts(o)
  \/ \E o \in Objs : SandboxClose(o)
  \/ \E o \in Objs : SandboxReconnect(o)
  \/ \E o \in Objs : Communicate(o)

Spec == Init /\ [][Next]_vars

\* the objects of firebox/sandbox/main.py and docker_sandbox.py on one runtime
NextDocker ==
  \/ \E o \in Objs : Construct(o, "DockerSandbox")
  \/ \E o \in Objs : Open(o)
  \/ \E o \in Objs : Probe(o)
  \/ \E o \in Objs : OpenInitScripts(o)
  \/ \E o \in Objs : OpenMakeDir(o)
  \/ \E o \in Objs : MainClose(o)
  \/ \E o \in Objs : DockerRemove(o)
  \/ \E o \in Objs : DockerStop(o)
  \/ \E o \in Objs : DockerStart(o)
  \/ \E o \in Objs : Communicate(o)
  \/ MainReconnect

SpecDocker == Init /\ [][NextDocker]_vars

\* one object of each implementation on one runtime, under the same sandbox id
LegacyObj == "s1"
DockerObj == "s2"
NextMixed ==
  \/ Construct(LegacyObj, "Sandbox")
  \/ SandboxInit(LegacyObj)
  \/ SandboxInitScripts(LegacyObj)
  \/ SandboxClose(LegacyObj)
  \/ SandboxReconnect(LegacyObj)
  \/ Communicate(LegacyObj)
  \/ Construct(DockerObj, "DockerSandbox")
  \/ Open(DockerObj)
  \/ Probe(DockerObj)
  \/ OpenInitScripts(DockerObj)
  \/ OpenMakeDir(DockerObj)
  \/ MainClose(DockerObj)
  \/ DockerRemove(DockerObj)
  \/ DockerStop(DockerObj)
  \/ DockerStart(DockerObj)
  \/ Communicate(DockerObj)
  \/ MainReconnect

SpecMixed == Init /\ [][NextMixed]_vars

\* ------------------------------- firebox/models/process.py ProcessOutput
Lines == {"x", "y"}
Timestamps == 0..MaxTs
ProcessMessages == [line : Lines, timestamp : Timestamps]

\* the while loop of _insert_by_timestamp, on 1-based positions: from position
\* i down, skip the messages whose timestamp is greater than ts
\* (NoScanBack: the message is appended without a scan)
NoScanBack(msgs, i, ts) == i
RECURSIVE ScanBack(_, _, _)
ScanBack(msgs, i, ts) ==
  IF i >= 1 /\ msgs[i].timestamp > ts THEN ScanBack(msgs, i - 1, ts) ELSE i

\* list.insert(k, m) with k counted from 0
ListInsert(msgs, k, m) == SubSeq(msgs, 1, k) \o <<m>> \o SubSeq(msgs, k + 1, Len(msgs))

insert_by_timestamp(msgs, m) ==
  ListInsert(msgs, ScanBack(msgs, Len(msgs), m.timestamp), m)

add_stdout(m) ==
  /\ Len(added) < MaxMsgs
  /\ messages' = insert_by_timestamp(messages, m)
  /\ added' = Append(added, m)
  /\ UNCHANGED error
  /\ UNCHANGED notOutput

add_stderr(m) ==
  /\ Len(added) < MaxMsgs
  /\ error' = TRUE
  /\ messages' = insert_by_timestamp(messages, m)
  /\ added' = Append(added, m)
  /\ UNCHANGED notOutput

NextOutput ==
  \/ \E m \in ProcessMessages : add_stdout(m)
  \/ \E m \in ProcessMessages : add_stderr(m)

SpecOutput == Init /\ [][NextOutput]_vars

\* ------------------------------------------- communicate(command, timeout)
ExecTimeouts == {None} \cup {Some(t) : t \in 0..MaxNeed}

\* the timer of asyncio.wait_for(..., timeout) in Sandbox.communicate of
\* firebox/sandbox.py has fired; DockerSandbox.communicate does not read its
\* timeout parameter
TimerFired(c) == c.kind = "Sandbox" /\ c.timeout # None /\ c.elapsed >= c.timeout[1]

\* the call is made: the exec is handed to a worker thread and the caller suspends
CommunicateCall(kind, t, need) ==
  /\ call = None
  /\ call' = Some([kind |-> kind, timeout |-> t, need |-> need, elapsed |-> 0,
                   res |-> "pending"])
  /\ UNCHANGED notExec

\* a tick passes while the command runs and the caller is suspended
ExecTick ==
  /\ call # None /\ call[1].res = "pending"
  /\ call[1].elapsed < call[1].need /\ ~TimerFired(call[1])
  /\ call' = Some([call[1] EXCEPT !.elapsed = @ + 1])
  /\ UNCHANGED notExec

\* exec_run has returned: the caller gets (output, exit_code); with wait_for
\* this needs the result before the timer, a timeout of 0 leaving it no time
ExecComplete ==
  /\ call # None /\ call[1].res = "pending"
  /\ call[1].elapsed >= call[1].need
  /\ ~(TimerFired(call[1]) /\ (call[1].timeout[1] = 0 \/ call[1].elapsed > call[1].timeout[1]))
  /\ call' = Some([call[1] EXCEPT !.res = "ok"])
  /\ UNCHANGED notExec

\* wait_for cancels the await and asyncio.TimeoutError becomes TimeoutError
ExecTimeout ==
  /\ call # None /\ call[1].res = "pending"
  /\ TimerFired(call[1])
  /\ call' = Some([call[1] EXCEPT !.res = "TimeoutError"])
  /\ UNCHANGED notExec

\* the caller resumes
ExecReturn ==
  /\ call # None /\ call[1].res # "pending"
  /\ call' = None
  /\ UNCHANGED notExec

NextExec ==
  \/ \E kind \in Kinds, t \in ExecTimeouts, need \in 0..MaxNeed : CommunicateCall(kind, t, need)
  \/ ExecTick
  \/ ExecComplete
  \/ ExecTimeout
  \/ ExecReturn

SpecExec == Init /\ [][NextExec]_vars

\* ------------------------------------ firebox/process/main.py ProcessManager
ExitCodes == {0, 143}                     \* exit statuses of the command
WaitTimeouts == {None, Some(0), Some(1)}  \* timeout argument of wait(), in ticks
\* the callbacks given to start; on_stderr is followed when given alone
Handlers == {h \in [on_stdout : BOOLEAN, on_stderr : BOOLEAN, on_exit : BOOLEAN] :
               h.on_stderr => ~(h.on_stdout \/ h.on_exit)}

\* The job is the subshell of bg_cmd:  ( cmd; echo $? > exit_code_file ) > output_file 2>&1 &
\* While phase is "cmd" the command runs; the redirection of echo creates the
\* exit-code file empty ("opened") and echo then writes the status into it
\* ("done"), after which the subshell is gone.
ExitCodeFileExists(j) == j.phase \in {"opened", "done"}

\* what echo $? writes: the decimal digits of the status
RECURSIVE Decimal(_)
Decimal(n) == IF n < 10 THEN <<n>> ELSE Append(Decimal(n \div 10), n % 10)

\* cat exit_code_file, stripped
ExitCodeFile(j) == IF j.phase = "done" THEN Decimal(j.code) ELSE <<>>

\* int(exit_code_str.strip()), ValueError giving None
RECURSIVE IntOf(_)
IntOf(ds) ==
  IF Len(ds) = 1 THEN ds[1] ELSE 10 * IntOf(SubSeq(ds, 1, Len(ds) - 1)) + ds[Len(ds)]
ParseExitCode(str) == IF str = <<>> THEN None ELSE Some(IntOf(str))

Ended(op, res, exit_code, stdout) ==
  [op |-> op, res |-> res, exit_code |-> exit_code, stdout |-> stdout]
Idle(c) == [pc |-> "idle", op |-> "", timeout |-> None, elapsed |-> 0, stdout |-> 0,
            calls |-> c.calls]

\* ---- the job in the container
JobOutput ==
  /\ job.phase = "cmd" /\ job.out < MaxOut
  /\ job' = [job EXCEPT !.out = @ + 1]
  /\ UNCHANGED <<rp, caller, stream, callbacks, killed, plast>>
  /\ UNCHANGED notProc

JobExit(c) ==
  /\ job.phase = "cmd"
  /\ job' = [job EXCEPT !.phase = "opened", !.code = c]
  /\ UNCHANGED <<rp, caller, stream, callbacks, killed, plast>>
  /\ UNCHANGED notProc

JobEcho ==
  /\ job.phase = "opened"
  /\ job' = [job EXCEPT !.phase = "done"]
  /\ UNCHANGED <<rp, caller, stream, callbacks, killed, plast>>
  /\ UNCHANGED notProc

\* ---- ProcessManager.start
\* communicate(bg_cmd) launched the job and returned its pid: the handle is
\* made, the streaming task is created when an output callback is given, and
\* start sleeps before it returns
Start(h) ==
  /\ caller.pc = "none" /\ job.phase = "none"
  /\ job' = [job EXCEPT !.phase = "cmd"]
  /\ rp' = Some(h)
  /\ stream' = IF h.on_stdout \/ h.on_stderr THEN [stream EXCEPT !.pc = "wc"] ELSE stream
  /\ caller' = [caller EXCEPT !.pc = "starting"]
  /\ UNCHANGED <<callbacks, killed, plast>>
  /\ UNCHANGED notProc

\* communicate(bg_cmd) raised: start re-raises and no handle is made
StartFails ==
  /\ caller.pc = "none" /\ job.phase = "none"
  /\ plast' = Ended("start", "SandboxError", None, 0)
  /\ UNCHANGED <<job, rp, caller, stream, callbacks, killed>>
  /\ UNCHANGED notProc

StartReturn ==
  /\ caller.pc = "starting"
  /\ caller' = [caller EXCEPT !.pc = "idle"]
  /\ plast' = Ended("start", "ok", None, 0)
  /\ UNCHANGED <<job, rp, stream, callbacks, killed>>
  /\ UNCHANGED notProc

\* ---- RunningProcess.wait
WaitCall(t) ==
  /\ caller.pc = "idle" /\ caller.calls < MaxCalls
  /\ caller' = [caller EXCEPT !.pc = "wait_poll", !.op = "wait", !.timeout = t,
                              !.elapsed = 0, !.calls = @ + 1]
  /\ UNCHANGED <<job, rp, stream, callbacks, killed, plast>>
  /\ UNCHANGED notProc

\* one iteration of the loop up to its sleep: _is_process_complete, then the
\* timeout test
WaitPoll ==
  /\ caller.pc = "wait_poll"
  /\ IF ExitCodeFileExists(job)
       THEN /\ caller' = [caller EXCEPT !.pc = "result_poll"]
            /\ UNCHANGED plast
     ELSE IF Truthy(caller.timeout) /\ caller.elapsed > caller.timeout[1]
       THEN /\ caller' = Idle(caller)
            /\ plast' = Ended("wait", "TimeoutError", None, 0)
     ELSE /\ caller' = [caller EXCEPT !.pc = "wait_sleep"]
          /\ UNCHANGED plast
  /\ UNCHANGED <<job, rp, stream, callbacks, killed>>
  /\ UNCHANGED notProc

WaitSleep ==
  /\ caller.pc = "wait_sleep"
  /\ caller' = [caller EXCEPT !.pc = "wait_poll",
                              !.elapsed = IF @ < MaxWaitTicks THEN @ + 1 ELSE @]
  /\ UNCHANGED <<job, rp, stream, callbacks, killed, plast>>
  /\ UNCHANGED notProc

\* ---- RunningProcess.get_result, called by wait or directly
GetResultCall ==
  /\ caller.pc = "idle" /\ caller.calls < MaxCalls
  /\ caller' = [caller EXCEPT !.pc = "result_poll", !.op = "get_result", !.calls = @ + 1]
  /\ UNCHANGED <<job, rp, stream, callbacks, killed, plast>>
  /\ UNCHANGED notProc

GetResultPoll ==
  /\ caller.pc = "result_poll"
  /\ caller' = [caller EXCEPT !.pc = IF ExitCodeFileExists(job) THEN "cat_output"
                                     ELSE "result_sleep"]
  /\ UNCHANGED <<job, rp, stream, callbacks, killed, plast>>
  /\ UNCHANGED notProc

GetResultSleep ==
  /\ caller.pc = "result_sleep"
  /\ caller' = [caller EXCEPT !.pc = "result_poll"]
  /\ UNCHANGED <<job, rp, stream, callbacks, killed, plast>>
  /\ UNCHANGED notProc

CatOutput ==
  /\ caller.pc = "cat_output"
  /\ caller' = [caller EXCEPT !.pc = "cat_exit_code", !.stdout = job.out]
  /\ UNCHANGED <<job, rp, stream, callbacks, killed, plast>>
  /\ UNCHANGED notProc

\* every wait that gets a result calls on_exit with it
OnExitCalls(cbs, exit_code) == Append(cbs, [cb |-> "on_exit", arg |-> exit_code])

\* the exit-code file is read and parsed and the result returned; wait calls
\* on_exit with the exit code before it returns
CatExitCode ==
  /\ caller.pc = "cat_exit_code"
  /\ LET exit_code == ParseExitCode(ExitCodeFile(job))
     IN /\ callbacks' = IF caller.op = "wait" /\ rp[1].on_exit
                          THEN OnExitCalls(callbacks, exit_code) ELSE callbacks
        /\ plast' = Ended(caller.op, "ok", exit_code, caller.stdout)
  /\ caller' = Idle(caller)
  /\ UNCHANGED <<job, rp, stream, killed>>
  /\ UNCHANGED notProc

\* ---- RunningProcess.kill
\* its first statement reads self.process, an attribute RunningProcess does
\* not have: AttributeError is raised before any signal is sent
Kill ==
  /\ caller.pc = "idle"
  /\ plast' = Ended("kill", "AttributeError", None, 0)
  /\ killed' = (killed \/ job.phase = "cmd")
  /\ UNCHANGED <<job, rp, caller, stream, callbacks>>
  /\ UNCHANGED notProc

\* ---- RunningProcess._stream_output
StreamWc ==
  /\ stream.pc = "wc"
  /\ stream' = [stream EXCEPT !.current_size = job.out,
                              !.pc = IF job.out > stream.last_size THEN "tail" ELSE "check"]
  /\ UNCHANGED <<job, rp, caller, callbacks, killed, plast>>
  /\ UNCHANGED notProc

\* tail reads from last_size + 1 to the end the file has by now; the message
\* goes to on_stdout and then to on_stderr
StreamTail ==
  /\ stream.pc = "tail"
  /\ LET new_output == <<stream.last_size + 1, job.out>>
         a == IF rp[1].on_stdout
                THEN Append(callbacks, [cb |-> "on_stdout", arg |-> new_output])
              ELSE callbacks
     IN callbacks' = IF rp[1].on_stderr
                       THEN Append(a, [cb |-> "on_stderr", arg |-> new_output])
                     ELSE a
  /\ stream' = [stream EXCEPT !.last_size = stream.current_size, !.pc = "check"]
  /\ UNCHANGED <<job, rp, caller, killed, plast>>
  /\ UNCHANGED notProc

\* completion holds the polls slept since the exit-code file was first seen
StreamCheck ==
  /\ stream.pc = "check"
  /\ stream' =
       IF ~ExitCodeFileExists(job) THEN [stream EXCEPT !.pc = "sleep"]
       ELSE IF stream.completion = None
         THEN [stream EXCEPT !.completion = Some(0), !.pc = "sleep"]
       ELSE IF stream.completion[1] > GracePolls THEN [stream EXCEPT !.pc = "ended"]
       ELSE [stream EXCEPT !.pc = "sleep"]
  /\ UNCHANGED <<job, rp, caller, callbacks, killed, plast>>
  /\ UNCHANGED notProc

StreamSleep ==
  /\ stream.pc = "sleep"
  /\ stream' = [stream EXCEPT !.pc = "wc",
                              !.completion = IF @ = None \/ @[1] > GracePolls THEN @
                                             ELSE Some(@[1] + 1)]
  /\ UNCHANGED <<job, rp, caller, callbacks, killed, plast>>
  /\ UNCHANGED notProc

NextProcess ==
  \/ \E h \in Handlers : Start(h)
  \/ StartFails
  \/ StartReturn
  \/ JobOutput
  \/ \E c \in ExitCodes : JobExit(c)
  \/ JobEcho
  \/ \E t \in WaitTimeouts : WaitCall(t)
  \/ WaitPoll
  \/ WaitSleep
  \/ GetResultCall
  \/ GetResultPoll
  \/ GetResultSleep
  \/ CatOutput
  \/ CatExitCode
  \/ Kill
  \/ StreamWc
  \/ StreamTail
  \/ StreamCheck
  \/ StreamSleep

SpecProcess == Init /\ [][NextProcess]_vars

\* ------------------- firebox/filesystem/watcher.py and firebox/subscriptions.py
\* ls -la prints one line per entry, "." and ".." among them, after a line
\* "total N".  A line is kept as the fields the poll reads: how many
\* whitespace-separated parts it has, its first character's being d, its name,
\* and meta for the size and time columns.
EntryLine(n, e) == [parts |-> 9, name |-> n, is_dir |-> e.is_dir, meta |-> e.meta]
Present(d) == {n \in Names : d[n] # None}
TotalLine(d) == [parts |-> 2, name |-> "", is_dir |-> FALSE, meta |-> Cardinality(Present(d))]
DotLines(d) ==
  {[parts |-> 9, name |-> ".", is_dir |-> TRUE, meta |-> Cardinality(Present(d))],
   [parts |-> 9, name |-> "..", is_dir |-> TRUE, meta |-> 0]}

\* set(output.splitlines()) of ls -la path
Listing(d) == {TotalLine(d)} \cup DotLines(d) \cup {EntryLine(n, d[n][1]) : n \in Present(d)}

\* the diff of poll_changes is taken on whole lines
SameLine(a, b) == a = b
NewFiles(current_state, previous_state) ==
  {l \in current_state : ~\E k \in previous_state : SameLine(l, k)}

\* the events one cycle gives to the handler, one per changed line that has a
\* name other than . and ..
Emitted(current_state, previous_state) ==
  LET new_files == NewFiles(current_state, previous_state)
      removed_files == NewFiles(previous_state, current_state)
  IN {[line |-> l, name |-> l.name, is_dir |-> l.is_dir,
       operation |-> IF l \in new_files THEN "Create" ELSE "Remove"] :
        l \in {k \in new_files \cup removed_files : k.parts >= 9 /\ k.name \notin {".", ".."}}}

\* FilesystemEvent(**event) in Watcher._handle_filesystem_events needs a mapping;
\* poll_changes hands it a FilesystemEvent object, which is none: the TypeError is
\* caught and logged and no listener task is created
IsMapping(event) == FALSE
HandleFilesystemEvents(listeners, event) ==
  IF IsMapping(event) THEN {[listener |-> l, event |-> event] : l \in listeners} ELSE {}

\* the listener invocations of one cycle, in some order
RECURSIVE SeqOf(_)
SeqOf(S) == IF S = {} THEN <<>> ELSE LET x == CHOOSE x \in S : TRUE IN <<x>> \o SeqOf(S \ {x})

\* ---- the directory, changed by anything running in the container
FsCreate(n) ==
  /\ dir[n] = None
  /\ dir' = [dir EXCEPT ![n] = Some([is_dir |-> IsDirName(n), meta |-> 0])]
  /\ UNCHANGED <<watcher, wtask, cycle, delivered, kept, atStart, wlast>>
  /\ UNCHANGED notWatch

\* the entry is written to: its size and modification time change
FsWrite(n) ==
  /\ dir[n] # None /\ dir[n][1].meta < MaxMeta
  /\ dir' = [dir EXCEPT ![n][1].meta = @ + 1]
  /\ UNCHANGED <<watcher, wtask, cycle, delivered, kept, atStart, wlast>>
  /\ UNCHANGED notWatch

FsRemove(n) ==
  /\ dir[n] # None
  /\ dir' = [dir EXCEPT ![n] = None]
  /\ kept' = kept \ {n}
  /\ UNCHANGED <<watcher, wtask, cycle, delivered, atStart, wlast>>
  /\ UNCHANGED notWatch

\* ---- Watcher
\* previous_state of SubscriptionHandler.watch_directory at subscription
InitialSnapshot(d) == {}

\* start(): nothing when self._unsubscribe is set; else watch_directory creates
\* the poll task and returns its unsubscribe
WatcherStart ==
  /\ IF watcher.unsubscribe
       THEN UNCHANGED <<watcher, wtask, kept, atStart>>
     ELSE /\ watcher' = [watcher EXCEPT !.unsubscribe = TRUE]
          /\ wtask' = [state |-> "polling", previous_state |-> InitialSnapshot(dir)]
          /\ kept' = Present(dir)
          /\ atStart' = Present(dir)
  /\ wlast' = [op |-> "start", res |-> "ok"]
  /\ UNCHANGED <<dir, cycle, delivered>>
  /\ UNCHANGED notWatch

\* stop(): the listeners are cleared; when self._unsubscribe is set it is
\* called, which cancels the task and returns None, and awaiting None raises
\* TypeError, raised on as FilesystemException before self._unsubscribe is reset
WatcherStop ==
  /\ watcher' = [watcher EXCEPT !.listeners = {}]
  /\ IF watcher.unsubscribe
       THEN /\ wtask' = [wtask EXCEPT !.state = "cancelled"]
            /\ wlast' = [op |-> "stop", res |-> "FilesystemException"]
     ELSE /\ UNCHANGED wtask
          /\ wlast' = [op |-> "stop", res |-> "ok"]
  /\ UNCHANGED <<dir, cycle, delivered, kept, atStart>>
  /\ UNCHANGED notWatch

AddEventListener(l) ==
  /\ l \notin watcher.listeners
  /\ watcher' = [watcher EXCEPT !.listeners = @ \cup {l}]
  /\ UNCHANGED <<dir, wtask, cycle, delivered, kept, atStart, wlast>>
  /\ UNCHANGED notWatch

\* the remove_listener returned by add_event_listener, for a registered listener
RemoveListener(l) ==
  /\ l \in watcher.listeners
  /\ watcher' = [watcher EXCEPT !.listeners = @ \ {l}]
  /\ UNCHANGED <<dir, wtask, cycle, delivered, kept, atStart, wlast>>
  /\ UNCHANGED notWatch

\* the results of the exec of one cycle: ls exits 0, ls exits non-zero, or
\* communicate raises SandboxException
PollResults == {"0", "2", "SandboxException"}

\* previous_state after a cycle that did not get a listing: the assignment
\* previous_state = current_state is inside `if exit_code == 0`, and an exception
\* leaves the try block before it
SnapshotOverwritten(previous_state, current_state) == current_state
SnapshotUnread(previous_state, current_state) == previous_state

\* one cycle of poll_changes, from the ls to the sleep: when ls succeeds the
\* changed lines are given to the handler and the listing becomes the snapshot;
\* otherwise nothing is given to the handler, and the loop sleeps and goes on
PollChanges ==
  /\ wtask.state = "polling"
  /\ \E result \in PollResults :
       IF result = "0"
         THEN LET current_state == Listing(dir)
                  emitted == Emitted(current_state, wtask.previous_state)
                  calls == UNION {HandleFilesystemEvents(watcher.listeners, e) : e \in emitted}
              IN /\ cycle' = [listeners |-> watcher.listeners, emitted |-> emitted,
                              failed |-> FALSE]
                 /\ delivered' = delivered \o SeqOf(calls)
                 /\ wtask' = [wtask EXCEPT !.previous_state = current_state]
       ELSE /\ cycle' = [listeners |-> watcher.listeners, emitted |-> {}, failed |-> TRUE]
            /\ wtask' = [wtask EXCEPT !.previous_state =
                                        SnapshotUnread(wtask.previous_state, {})]
            /\ UNCHANGED delivered
  /\ UNCHANGED <<dir, watcher, kept, atStart, wlast>>
  /\ UNCHANGED notWatch

NextWatch ==
  \/ \E n \in Names : FsCreate(n)
  \/ \E n \in Names : FsWrite(n)
  \/ \E n \in Names : FsRemove(n)
  \/ WatcherStart
  \/ WatcherStop
  \/ \E l \in Listeners : AddEventListener(l)
  \/ \E l \in Listeners : RemoveListener(l)
  \/ PollChanges

SpecWatch == Init /\ [][NextWatch]_vars

\* ------------------------------------------ firebox/cleanup.py CleanupManager
\* add_task appends, whether or not the task is registered already
AddTask(t) ==
  /\ Len(cleanup_tasks) < MaxTasks
  /\ cleanup_tasks' = Append(cleanup_tasks, t)
  /\ UNCHANGED <<cleaning, ran, atCall>>
  /\ UNCHANGED notCleanup

\* cleanup(): reversed(self.cleanup_tasks) starts at the last position
CleanupCall ==
  /\ cleaning = None
  /\ cleaning' = Some(Len(cleanup_tasks))
  /\ ran' = <<>>
  /\ atCall' = cleanup_tasks
  /\ UNCHANGED cleanup_tasks
  /\ UNCHANGED notCleanup

\* the next task is run; an exception it raises is caught and logged
CleanupStep ==
  /\ cleaning # None /\ cleaning[1] > 0
  /\ \E raised \in BOOLEAN :
       ran' = Append(ran, [task |-> cleanup_tasks[cleaning[1]], raised |-> raised])
  /\ cleaning' = Some(cleaning[1] - 1)
  /\ UNCHANGED <<cleanup_tasks, atCall>>
  /\ UNCHANGED notCleanup

CleanupReturn ==
  /\ cleaning = Some(0)
  /\ cleaning' = None
  /\ UNCHANGED <<cleanup_tasks, ran, atCall>>
  /\ UNCHANGED notCleanup

NextCleanup ==
  \/ \E t \in Tasks : AddTask(t)
  \/ CleanupCall
  \/ CleanupStep
  \/ CleanupReturn

SpecCleanup == Init /\ [][NextCleanup]_vars

\* ------------- firebox/filesystem/main.py FilesystemManager, firebox/filesystem.py Filesystem
Texts == UNION {[1..n -> Chars] : n \in 0..MaxText}

\* str.strip(), which both communicate methods apply to the output of a command
RECURSIVE LStrip(_)
LStrip(t) == IF t # <<>> /\ Head(t) \in Whitespace THEN LStrip(Tail(t)) ELSE t
RECURSIVE RStrip(_)
RStrip(t) ==
  IF t # <<>> /\ t[Len(t)] \in Whitespace THEN RStrip(SubSeq(t, 1, Len(t) - 1)) ELSE t
Strip(t) == RStrip(LStrip(t))

\* content.replace(b"'", b"'\"'\"'") of Filesystem.write
RECURSIVE EscapeQuotes(_)
EscapeQuotes(t) ==
  IF t = <<>> THEN <<>>
  ELSE (IF Head(t) = "'" THEN <<"'", "\"", "'", "\"", "'">> ELSE <<Head(t)>>)
         \o EscapeQuotes(Tail(t))

\* How /bin/bash reads the arguments of echo: mode is "u" outside quotes, "s"
\* inside '...' and "d" inside "..."; a quote opens or closes a word part, an
\* unquoted blank ends the word, an unquoted newline ends the command, after
\* which the rest is run as a command of its own and is not found.  The result
\* is [ok, words]: the words, ok being FALSE when bash exits non-zero.
Unparsed == [ok |-> FALSE, words |-> <<>>]
Parsed(words) == [ok |-> TRUE, words |-> words]
RECURSIVE ShellWords(_, _, _, _, _)
ShellWords(t, mode, word, started, words) ==
  IF t = <<>>
    THEN IF mode # "u" THEN Unparsed
         ELSE Parsed(IF started THEN Append(words, word) ELSE words)
  ELSE LET c == Head(t)
           rest == Tail(t)
       IN IF mode = "s"
            THEN IF c = "'" THEN ShellWords(rest, "u", word, TRUE, words)
                 ELSE ShellWords(rest, "s", Append(word, c), TRUE, words)
          ELSE IF mode = "d"
            THEN IF c = "\"" THEN ShellWords(rest, "u", word, TRUE, words)
                 ELSE ShellWords(rest, "d", Append(word, c), TRUE, words)
          ELSE IF c = "'" THEN ShellWords(rest, "s", word, TRUE, words)
          ELSE IF c = "\"" THEN ShellWords(rest, "d", word, TRUE, words)
          ELSE IF c = "\n" THEN Unparsed
          ELSE IF c = " "
            THEN ShellWords(rest, "u", <<>>, FALSE,
                            IF started THEN Append(words, word) ELSE words)
          ELSE ShellWords(rest, "u", Append(word, c), TRUE, words)

\* echo prints its arguments separated by one blank
RECURSIVE JoinWords(_)
JoinWords(words) ==
  IF words = <<>> THEN <<>>
  ELSE IF Len(words) = 1 THEN words[1]
  ELSE words[1] \o <<" ">> \o JoinWords(Tail(words))

\* what the command of write leaves in the file, as [ok, text]:
\*   FilesystemManager.write   echo '{content}' > {path}
\*   Filesystem.write          echo -n '{escaped content}' > {full_path}
Quoted(t) == <<"'">> \o t \o <<"'">>
Written(impl, t) ==
  LET parse == ShellWords(Quoted(IF impl = "Filesystem" THEN EscapeQuotes(t) ELSE t),
                          "u", <<>>, FALSE, <<>>)
  IN [ok |-> parse.ok,
      text |-> IF impl = "Filesystem" THEN JoinWords(parse.words)
               ELSE JoinWords(parse.words) \o <<"\n">>]

Called(op, impl, arg, res) == [op |-> op, impl |-> impl, arg |-> arg, res |-> res, was |-> node]
Returned(value) == [err |-> "", value |-> value]
Raised(err) == [err |-> err, value |-> <<>>]
FsError(impl, op) ==
  IF impl = "FilesystemManager" THEN "FilesystemException"
  ELSE IF op = "write" THEN "IOError"
  ELSE IF op = "make_dir" THEN "OSError"
  ELSE "FileNotFoundError"

\* write: the redirection fails on a directory; the file gets what echo prints
Write(impl, t) ==
  /\ LET content == Written(impl, t)
     IN IF ~content.ok \/ (node # None /\ node[1].kind = "dir")
          THEN /\ flast' = Called("write", impl, t, Raised(FsError(impl, "write")))
               /\ UNCHANGED node
        ELSE /\ node' = Some([kind |-> "file", content |-> content.text])
             /\ flast' = Called("write", impl, t, Returned(<<>>))
  /\ UNCHANGED notFs

\* read: cat of the path; the caller gets the output as communicate returns it,
\* stripped (Filesystem.read encodes it to bytes)
Read(impl) ==
  /\ IF node # None /\ node[1].kind = "file"
       THEN flast' = Called("read", impl, <<>>, Returned(Strip(node[1].content)))
     ELSE flast' = Called("read", impl, <<>>, Raised(FsError(impl, "read")))
  /\ UNCHANGED node
  /\ UNCHANGED notFs

\* make_dir: mkdir -p succeeds on an existing directory and fails on a file
MakeDir(impl) ==
  /\ IF node # None /\ node[1].kind = "file"
       THEN /\ flast' = Called("make_dir", impl, <<>>, Raised(FsError(impl, "make_dir")))
            /\ UNCHANGED node
     ELSE /\ node' = Some([kind |-> "dir"])
          /\ flast' = Called("make_dir", impl, <<>>, Returned(<<>>))
  /\ UNCHANGED notFs

\* the exit status of rm -rf on a path: 0 also when nothing is there
RmForce(n) == 0

\* FilesystemManager.remove and Filesystem.delete: rm -rf, an error being
\* raised on a non-zero status (Filesystem.delete: or on the word failed,
\* echoed when rm fails)
Remove(impl) ==
  /\ IF RmForce(node) = 0
       THEN /\ node' = None
            /\ flast' = Called("remove", impl, <<>>, Returned(<<>>))
     ELSE /\ UNCHANGED node
          /\ flast' = Called("remove", impl, <<>>, Raised(FsError(impl, "remove")))
  /\ UNCHANGED notFs

NextFs ==
  \/ \E impl \in Impls, t \in Texts : Write(impl, t)
  \/ \E impl \in Impls : Read(impl)
  \/ \E impl \in Impls : MakeDir(impl)
  \/ \E impl \in Impls : Remove(impl)

SpecFs == Init /\ [][NextFs]_vars

\* ------------------------ firebox/process/main.py: process_id and its files
\* the clock advances
ClockTick ==
  /\ now < MaxClock
  /\ now' = now + 1
  /\ UNCHANGED <<handles, exit_files, seen, retrieved>>
  /\ UNCHANGED notId

\* process_id = f"process_{int(time.time() * 1000)}", as the number in it
ProcessId(ms) == Epoch + ms

\* the pid `echo $!` prints for the subshell of p
Pid(p) == IF p = "p1" THEN 1 ELSE 2

\* whether the directory given as cwd exists in the container
CwdExists(cwd) == cwd # "/missing"

\* what start does with its cwd before it launches the command: nothing. cwd
\* only becomes `cd {cwd} &&` in front of the command, inside the subshell that
\* is put in the background, so start raises nothing for it ("" here)
CheckCwd(cwd) == ""

\* start(): the id is taken from the clock, the files are named after it and
\* the command is launched with them
StartProcess(p, cwd) ==
  /\ handles[p] = None
  /\ CheckCwd(cwd) = ""
  /\ handles' = [handles EXCEPT ![p] = Some([pid |-> Pid(p), process_id |-> ProcessId(now),
                                              phase |-> "running", code |-> 0,
                                              cwd |-> cwd])]
  /\ UNCHANGED <<now, exit_files, seen, retrieved>>
  /\ UNCHANGED notId

\* the exit status of `cd {cwd} && cmd` where cmd would exit with c: that of
\* the failed cd when the directory is missing
SubshellStatus(cwd, c) == IF CwdExists(cwd) THEN c ELSE 1

\* the command of p ends and its subshell writes $? to the exit-code file
ProcessExit(p, c) ==
  /\ handles[p] # None /\ handles[p][1].phase = "running"
  /\ handles' = [handles EXCEPT ![p][1].phase = "done",
                                ![p][1].code = SubshellStatus(handles[p][1].cwd, c)]
  /\ exit_files' = [exit_files EXCEPT ![handles[p][1].process_id] =
                                        Some(SubshellStatus(handles[p][1].cwd, c))]
  /\ UNCHANGED <<now, seen, retrieved>>
  /\ UNCHANGED notId

\* get_result through the handle of p, once its exit-code file is there
ResultThrough(p) ==
  /\ handles[p] # None /\ exit_files[handles[p][1].process_id] # None
  /\ seen' = [seen EXCEPT ![p] = exit_files[handles[p][1].process_id]]
  /\ UNCHANGED <<now, handles, exit_files, retrieved>>
  /\ UNCHANGED notId

\* the process_id get(pid) gives the handle it makes: f"process_{pid}", from
\* which the output and exit-code file names follow
GetProcessId(pid) == pid

\* get(pid) for the pid of a handle of start, while ps still shows the process
GetProcess(p) ==
  /\ handles[p] # None /\ handles[p][1].phase = "running"
  /\ retrieved' = [retrieved EXCEPT ![p] =
                     Some([pid |-> handles[p][1].pid,
                           process_id |-> GetProcessId(handles[p][1].pid)])]
  /\ UNCHANGED <<now, handles, exit_files, seen>>
  /\ UNCHANGED notId

NextId ==
  \/ ClockTick
  \/ \E p \in Procs, cwd \in Dirs : StartProcess(p, cwd)
  \/ \E p \in Procs, c \in ExitCodes : ProcessExit(p, c)
  \/ \E p \in Procs : ResultThrough(p)
  \/ \E p \in Procs : GetProcess(p)

SpecId == Init /\ [][NextId]_vars

\* ---------- background loops: RunningProcess._stream_output and port_scanner
\* asyncio.create_task(...): the task object is not kept and nothing awaits it
SpawnTask(t) ==
  /\ bg[t].state = "none"
  /\ bg' = [bg EXCEPT ![t].state = "running"]
  /\ UNCHANGED bglast
  /\ UNCHANGED notBg

\* the exception that leaves the loop body of _stream_output, "" when none
\* does: the body has no try, so communicate's SandboxError, int()'s ValueError
\* on a size that is no number, and whatever on_stdout raises all leave it
StreamRaises(fault) ==
  CASE fault = "exec" -> "SandboxError"
    [] fault = "parse" -> "ValueError"
    [] fault = "callback" -> "Exception"
    [] OTHER -> ""

\* the same for port_scanner: _scan_ports catches every Exception of the exec
\* and of the parsing and returns [], which is then given to on_scan_ports;
\* the call of on_scan_ports is outside any try
ScanRaises(fault) == IF fault = "callback" THEN "Exception" ELSE ""

Raises(t, fault) == IF t = "_stream_output" THEN StreamRaises(fault) ELSE ScanRaises(fault)

\* whether the iteration gets as far as calling the user callback
CallsBack(t, fault) ==
  IF t = "_stream_output" THEN fault \in {"", "callback"} ELSE TRUE

\* one iteration of the loop of t, with the fault that befalls it
Iteration(t, fault) ==
  /\ bg[t].state = "running" /\ bg[t].iterations < MaxIter
  /\ bg' = [bg EXCEPT ![t] =
              [state |-> IF Raises(t, fault) = "" THEN "running" ELSE "failed",
               iterations |-> @.iterations + 1,
               exception |-> Raises(t, fault),
               calls |-> IF CallsBack(t, fault) THEN @.calls + 1 ELSE @.calls]]
  /\ bglast' = [task |-> t, fault |-> fault]
  /\ UNCHANGED notBg

\* _stream_output breaks out of its loop once the process has been complete
\* for a second; port_scanner has no exit
StreamEnds ==
  /\ bg["_stream_output"].state = "running"
  /\ bg' = [bg EXCEPT !["_stream_output"].state = "ended"]
  /\ UNCHANGED bglast
  /\ UNCHANGED notBg

NextBg ==
  \/ \E t \in BgTasks : SpawnTask(t)
  \/ \E t \in BgTasks, fault \in Faults : Iteration(t, fault)
  \/ StreamEnds

SpecBg == Init /\ [][NextBg]_vars

\* ------------------------------------------- how user callbacks are invoked
\* the callback is given to start, to the Sandbox or to add_event_listener
Register(c, kind) ==
  /\ registered[c] = ""
  /\ registered' = [registered EXCEPT ![c] = kind]
  /\ UNCHANGED <<invoked, completed>>
  /\ UNCHANGED notCb

\* Watcher._call_listener tests asyncio.iscoroutinefunction and awaits; wait,
\* _stream_output and port_scanner write a plain call, self.on_x(arg)
Awaits(c) == c = "listener"

\* whether the body runs when the site invokes a callback of this kind: the
\* plain call of an async def only makes a coroutine object, which is dropped
BodyRuns(c, kind) == kind = "def" \/ Awaits(c)

InvokeCallback(c) ==
  /\ registered[c] # "" /\ invoked[c] < MaxEvents
  /\ invoked' = [invoked EXCEPT ![c] = @ + 1]
  /\ completed' = [completed EXCEPT ![c] = IF BodyRuns(c, registered[c]) THEN @ + 1 ELSE @]
  /\ UNCHANGED registered
  /\ UNCHANGED notCb

NextCb ==
  \/ \E c \in Sites, kind \in CallbackKinds : Register(c, kind)
  \/ \E c \in Sites : InvokeCallback(c)

SpecCb == Init /\ [][NextCb]_vars

\* ---------------- firebox/api: AsyncDockerAdapter and DockerImageBuilder
\* the JSON objects of a build stream, as the keys build_image looks at: a log
\* line, the image id in aux.ID, and an error message
StreamChunk == [keys |-> {"stream"}, aux |-> {}, ID |-> ""]
AuxChunk(id) == [keys |-> {"aux"}, aux |-> {"ID"}, ID |-> id]
ErrorChunk == [keys |-> {"error", "errorDetail"}, aux |-> {}, ID |-> ""]
Chunks == {StreamChunk, ErrorChunk} \cup {AuxChunk(id) : id \in ImageIds}

\* build_image is called and the request is sent
BuildCall(impl) ==
  /\ building.phase = "idle"
  /\ building' = [building EXCEPT !.impl = impl, !.phase = "streaming"]
  /\ UNCHANGED notBuild

\* image_id after a chunk in the loop of AsyncDockerAdapter.build_image
Capture(image_id, chunk) ==
  IF "aux" \in chunk.keys /\ "ID" \in chunk.aux THEN Some(chunk.ID) ELSE image_id

\* the runtime emits a chunk: the adapter's `async for` takes it at once, the
\* builder's await gathers the chunks into the list it gets at the end
BuildChunk(chunk) ==
  /\ building.phase = "streaming" /\ Len(building.chunks) < MaxChunks
  /\ building' = [building EXCEPT
                    !.chunks = Append(@, chunk),
                    !.image_id = IF building.impl = "AsyncDockerAdapter"
                                   THEN Capture(@, chunk) ELSE @]
  /\ UNCHANGED notBuild

\* the error each build_image raises for aiodocker's DockerError
BuildError(impl) ==
  IF impl = "AsyncDockerAdapter" THEN "SandboxCreationError" ELSE "DockerOperationError"

\* the request fails with DockerError
BuildRaises ==
  /\ building.phase = "streaming"
  /\ building' = [building EXCEPT !.phase = "done", !.docker_error = TRUE,
                                  !.res = Raised(BuildError(building.impl))]
  /\ UNCHANGED notBuild

\* build_result[0]["Id"] of DockerImageBuilder.build_image, build_result being
\* the list of the chunks
FirstId(build_result) ==
  IF build_result = <<>> THEN Raised("IndexError")
  ELSE IF "Id" \in build_result[1].keys THEN Returned(Some(build_result[1].ID))
  ELSE Raised("KeyError")

\* the stream ends: the adapter requires an image id, the builder reads one
\* from the first element of the list
BuildEnd ==
  /\ building.phase = "streaming"
  /\ building' = [building EXCEPT
       !.phase = "done",
       !.res = IF building.impl = "AsyncDockerAdapter"
                 THEN IF building.image_id = None THEN Raised("SandboxCreationError")
                      ELSE Returned(building.image_id)
               ELSE FirstId(building.chunks)]
  /\ UNCHANGED notBuild

\* the next call
BuildAgain ==
  /\ building.phase = "done"
  /\ building' = [impl |-> "", phase |-> "idle", chunks |-> <<>>, image_id |-> None,
                  docker_error |-> FALSE, res |-> Returned(None)]
  /\ UNCHANGED notBuild

NextBuild ==
  \/ \E impl \in Builders : BuildCall(impl)
  \/ \E chunk \in Chunks : BuildChunk(chunk)
  \/ BuildRaises
  \/ BuildEnd
  \/ BuildAgain

SpecBuild == Init /\ [][NextBuild]_vars

\* ------------------ firebox/api/async_docker_adapter.py: the port mapping
\* NewSandbox.ports is "Port mappings: {container_port: host_port}": an entry
\* is added under a container port not yet in the dict
SetPort(container_port, host_port) ==
  /\ \A i \in 1..Len(new_sandbox.ports) : new_sandbox.ports[i][1] # container_port
  /\ new_sandbox' = [new_sandbox EXCEPT !.ports = Append(@, <<container_port, host_port>>)]
  /\ UNCHANGED container_config
  /\ UNCHANGED notPort

\* f"{port}/tcp"
Tcp(port) == <<port, "tcp">>

\* {f"{port}/tcp": {} for port in new_sandbox.ports.values()}
ExposedPorts(ports) == {Tcp(ports[i][2]) : i \in 1..Len(ports)}

\* {f"{container}/tcp": [{"HostPort": str(host)}]
\*    for host, container in new_sandbox.ports.items()}: the key of each item is
\* taken as the host port and its value as the container port; a later item
\* replaces an earlier one under the same key of the result
RECURSIVE PortBindings(_)
PortBindings(ports) ==
  IF ports = <<>> THEN <<>>
  ELSE LET rest == PortBindings(SubSeq(ports, 1, Len(ports) - 1))
           host == ports[Len(ports)][1]
           container == ports[Len(ports)][2]
       IN [k \in DOMAIN rest \cup {Tcp(container)} |->
             IF k = Tcp(container) THEN host ELSE rest[k]]

\* create_sandbox(new_sandbox): the two entries are made when ports is not empty
CreateSandbox ==
  /\ container_config' =
       Some([ports |-> new_sandbox.ports,
             ExposedPorts |-> IF new_sandbox.ports # <<>>
                                THEN ExposedPorts(new_sandbox.ports) ELSE {},
             PortBindings |-> IF new_sandbox.ports # <<>>
                                THEN PortBindings(new_sandbox.ports) ELSE <<>>])
  /\ UNCHANGED new_sandbox
  /\ UNCHANGED notPort

\* another NewSandbox is begun
NewRequest ==
  /\ new_sandbox.ports # <<>>
  /\ new_sandbox' = [ports |-> <<>>]
  /\ UNCHANGED container_config
  /\ UNCHANGED notPort

NextPort ==
  \/ \E c \in ContainerPorts, h \in HostPorts : SetPort(c, h)
  \/ CreateSandbox
  \/ NewRequest

SpecPort == Init /\ [][NextPort]_vars

\* ----------------------------------------------- firebox/terminal/main.py
\* the names the module imports or defines at its top level
TerminalModuleNames ==
  {"asyncio", "logging", "Any", "Callable", "Optional", "Dict", "TIMEOUT",
   "TerminalException", "EnvVars", "TerminalOutput", "create_id", "logger",
   "Terminal", "TerminalManager"}

\* evaluating a name that is neither local nor in the module raises NameError
Resolves(name) == name \in TerminalModuleNames

\* exit_handler is a plain def, so `asyncio.create_task(exit_handler())` runs
\* its body inside start: future_exit.result() on a future with no result yet
\* raises InvalidStateError before unsub_all and on_exit are reached; with a
\* result it goes through them and returns None, which create_task rejects
ExitHandler(t) ==
  IF t.future_exit = "pending" THEN [t EXCEPT !.raised = "InvalidStateError"]
  ELSE [t EXCEPT !.unsubscribed = @ + 1,
                 !.on_exit_calls = IF t.on_exit THEN @ + 1 ELSE @,
                 !.finished = "resolved",
                 !.raised = "TypeError"]

\* start(on_data, cols, rows, terminal_id=..., on_exit=...): the subscriptions
\* are asked for inside a try whose arguments name SubscriptionArgs; every
\* exception there cancels future_exit and is raised on as TerminalException
TerminalStart(terminal_id, on_exit) ==
  /\ Len(terminals) < MaxStarts
  /\ LET t == [terminal_id |-> IF terminal_id = None THEN Some("create_id") ELSE terminal_id,
               on_exit |-> on_exit, future_exit |-> "pending", subscribed |-> FALSE,
               unsubscribed |-> 0, on_exit_calls |-> 0, finished |-> "none",
               returned |-> FALSE, raised |-> ""]
     IN terminals' = Append(terminals,
          IF ~Resolves("SubscriptionArgs")
            THEN [t EXCEPT !.future_exit = "cancelled", !.raised = "TerminalException"]
          ELSE ExitHandler([t EXCEPT !.subscribed = TRUE, !.finished = "pending"]))
  /\ UNCHANGED notTerm

NextTerm == \E terminal_id \in TerminalIds, on_exit \in BOOLEAN : TerminalStart(terminal_id, on_exit)

SpecTerm == Init /\ [][NextTerm]_vars

\* -------------------------------------- firebox/sandbox/sandbox_rpc.py
\* send_message up to its wait: the next id, a future for it, the entry in
\* waiting_for_replies and the request on queue_in
SendMessage(t) ==
  /\ senders[t].pc = "idle" /\ rpc.next_id <= MaxIds
  /\ rpc' = [rpc EXCEPT !.next_id = @ + 1,
                        !.waiting_for_replies = @ \cup {rpc.next_id}]
  /\ futures' = [futures EXCEPT ![rpc.next_id] =
                   [state |-> "pending", by |-> 0]]
  /\ senders' = [senders EXCEPT ![t] = [pc |-> "result", id |-> rpc.next_id, outcome |-> ""]]
  /\ UNCHANGED reader
  /\ UNCHANGED notRpc

\* what future_reply.result(timeout=timeout) makes of the future
ResultOf(future) ==
  CASE future.state = "Ok" -> "returns"
    [] future.state = "Error" -> "RpcException"
    [] future.state = "cancelled" -> "CancelledError"
    [] OTHER -> "TimeoutException"

\* future_reply.result(...) returns or raises: at once when the future is
\* resolved, with the timeout while it is pending
ResultEnds(t) ==
  /\ senders[t].pc = "result"
  /\ senders' = [senders EXCEPT ![t].pc = "finally",
                                ![t].outcome = ResultOf(futures[senders[t].id])]
  /\ UNCHANGED <<rpc, futures, reader>>
  /\ UNCHANGED notRpc

\* finally: del self.waiting_for_replies[id]
Remember(waiting_for_replies, id) == waiting_for_replies
Forget(waiting_for_replies, id) == waiting_for_replies \ {id}

SendFinally(t) ==
  /\ senders[t].pc = "finally"
  /\ rpc' = [rpc EXCEPT !.waiting_for_replies = Forget(@, senders[t].id)]
  /\ senders' = [senders EXCEPT ![t].pc = "idle"]
  /\ UNCHANGED <<futures, reader>>
  /\ UNCHANGED notRpc

\* process_messages takes a reply from queue_out; _receive_message parses it
\* and tests `message.id in self.waiting_for_replies`
ReceiveMessage(kind, id) ==
  /\ reader.pc = "get"
  /\ reader' = IF id \in rpc.waiting_for_replies
                 THEN [pc |-> "lookup", message |-> [kind |-> kind, id |-> id]]
               ELSE [pc |-> "get", message |-> [kind |-> kind, id |-> id]]
  /\ UNCHANGED <<rpc, futures, senders>>
  /\ UNCHANGED notRpc

\* `and self.waiting_for_replies[message.id]`, then the second lookup and the
\* call or reject of the future: a lookup of a key that has been deleted since
\* the test raises KeyError, which ends the process_messages thread
Resolve(future, kind, id) ==
  IF future.state = "pending" THEN [state |-> kind, by |-> id] ELSE future

Deliver ==
  /\ reader.pc = "lookup"
  /\ IF reader.message.id \in rpc.waiting_for_replies
       THEN /\ futures' = [futures EXCEPT ![reader.message.id] =
                              Resolve(@, reader.message.kind, reader.message.id)]
            /\ reader' = [reader EXCEPT !.pc = "get"]
     ELSE /\ reader' = [reader EXCEPT !.pc = "KeyError"]
          /\ UNCHANGED futures
  /\ UNCHANGED <<rpc, senders>>
  /\ UNCHANGED notRpc

\* close(): closed is set, the cancel every future left in process_cleanup is
\* run, and every future in a copy of waiting_for_replies is cancelled
RpcClose ==
  /\ ~rpc.closed
  /\ rpc' = [rpc EXCEPT !.closed = TRUE]
  /\ futures' = [id \in 1..MaxIds |->
                   IF futures[id].state = "pending"
                     THEN [state |-> "cancelled", by |-> 0] ELSE futures[id]]
  /\ UNCHANGED <<senders, reader>>
  /\ UNCHANGED notRpc

NextRpc ==
  \/ \E t \in Senders : SendMessage(t)
  \/ \E t \in Senders : ResultEnds(t)
  \/ \E t \in Senders : SendFinally(t)
  \/ \E kind \in Replies, id \in 1..MaxIds : ReceiveMessage(kind, id)
  \/ Deliver
  \/ RpcClose

SpecRpc == Init /\ [][NextRpc]_vars

\* =============================================================== claims
\* A step is a call by object o when last' names it; the call is a release
\* when it is Sandbox.close of firebox/sandbox.py or DockerSandbox.remove.
IsRelease(rec, o) ==
  /\ rec.o = o /\ sb[o] # None
  /\ \/ sb[o][1].kind = "Sandbox" /\ rec.op = "close"
     \/ sb[o][1].kind = "DockerSandbox" /\ rec.op = "remove"

C2_NoContainerAfterRelease ==
  [][\A o \in Objs :
       (IsRelease(last', o) /\ initialised[o] /\ handle[o] # None /\ last'.res = "ok")
       => containers'[NameOf(o)] = None]_vars

\* C3: a release that returns leaves the object without a handle, and a second
\* release right after it issues no remove call, raises nothing and changes
\* neither the runtime nor the object.
C3_ReleaseIdempotent ==
  [][\A o \in Objs :
       /\ (IsRelease(last', o) /\ last'.res = "ok") => handle'[o] = None
       /\ (IsRelease(last, o) /\ last.res = "ok" /\ IsRelease(last', o))
            => (/\ last'.calls = {} /\ last'.res = "ok"
                /\ containers' = containers /\ handle' = handle
                /\ UNCHANGED <<nextCid, sb, pc, timeout, elapsed, scanner, cwdAtClose, initialised>>)]_vars

\* a second release has just followed a first one that removed the container
C3_Witness ==
  /\ last.o \in Objs /\ IsRelease(last, last.o)
  /\ last.res = "ok" /\ last.calls = {}
  /\ handle[last.o] = None /\ containers[NameOf(last.o)] = None
  /\ nextCid > 1

\* C4: once a release of a sandbox has returned, an init/open on that object
\* is rejected with InvalidState and neither creates nor starts a container.
C4_ReleasedIsTerminal ==
  [][\A o \in Objs :
       (/\ initialised[o]
        /\ IsRelease(last, o) /\ last.res = "ok" /\ last.calls = {"remove"}
        /\ last'.o = o /\ last'.op \in {"init", "open"})
       => (last'.res = "InvalidState" /\ last'.calls \cap {"run", "start"} = {})]_vars

\* C5: when an open() whose readiness wait or cwd creation failed raises to
\* its caller, the sandbox is not running.
C5_FailedOpenNotRunning ==
  [][\A o \in Objs :
       (/\ last'.op = "open" /\ last'.o = o
        /\ last'.inner \in {"TimeoutException", "FilesystemException"})
       => ~is_running(containers', handle', o)]_vars

\* C6: a reconnect(id) that follows the close() of a running sandbox of that
\* id yields a container whose cwd holds what it held before the close.
C6_ReconnectKeepsCwd ==
  [][\A p \in Objs, o \in Objs :
       (/\ IsRelease(last, p) /\ initialised[p]
        /\ last.res = "ok" /\ last.calls = {"remove"} /\ last.inner = ""
        /\ last'.op = "reconnect" /\ last'.o = o /\ sb[o] = None
        /\ last'.arg = Some(sb[p][1].id) /\ last'.res = "pending")
       => containers'[NameOf(p)][1].files = cwdAtClose[sb[p][1].id]]_vars

C9_PersistentStorageMounted ==
  [][\A o \in Objs :
       (/\ last'.op = "open" /\ last'.o = o /\ last'.res = "pending"
        /\ "run" \in last'.calls)
       => LET v == containers'[NameOf(o)][1].volumes
              own == Abspath(persistent_storage_path)
          IN own \in DOMAIN v /\ v[own] = [bind |-> SandboxCwd, mode |-> "rw"]]_vars

\* C10: once the overall timeout given to open() has expired, the readiness
\* wait issues no further probe.
C10_NoProbeAfterExpiry ==
  [][\A o \in Objs :
       (last'.op = "probe" /\ last'.o = o)
       => ~(timeout[o] # None /\ elapsed[o] > timeout[o][1])]_vars

\* C20: after any sequence of _add_stdout/_add_stderr calls, messages is in
\* non-decreasing timestamp order and holds exactly the messages that were
\* added, each as often as it was added.
C20_SortedAndComplete ==
  /\ \A i \in 1..(Len(messages) - 1) : messages[i].timestamp <= messages[i + 1].timestamp
  /\ Len(messages) = Len(added)
  /\ \A m \in ProcessMessages :
       Cardinality({i \in DOMAIN messages : messages[i] = m})
         = Cardinality({i \in DOMAIN added : added[i] = m})

\* messages were added out of timestamp order, one of them twice
C20_Witness ==
  /\ Len(added) = MaxMsgs /\ messages # added
  /\ added[1].timestamp > added[2].timestamp
  /\ added[3] = added[1]

\* C11: a caller of communicate(cmd, timeout=t) is never suspended in the call
\* beyond t, and the call returns a result only when the command completed
\* within t.
C11_CommunicateHonoursTimeout ==
  (call # None /\ call[1].timeout # None)
  => (/\ call[1].elapsed <= call[1].timeout[1]
      /\ call[1].res = "ok" => call[1].need <= call[1].timeout[1])

\* C12: a timeout of 0 fails immediately: wait(timeout=0) on a process that has
\* not finished raises Timeout without waiting, so the call is never suspended
\* in the sleep of its poll loop.
C12_ZeroTimeoutFailsAtOnce ==
  ~(caller.op = "wait" /\ caller.timeout = Some(0) /\ caller.pc = "wait_sleep")

\* C13: the step in which wait(timeout) raises Timeout leaves the job and its
\* files as they are, and the kill() or wait() called next on the handle works:
\* it ends without an error other than a Timeout of its own.
C13_TimeoutLeavesProcessUsable ==
  [][/\ (caller.pc = "wait_poll" /\ caller'.pc = "idle") => job' = job
     /\ (plast.op = "wait" /\ plast.res = "TimeoutError" /\ plast' # plast)
          => (/\ plast'.op = "kill" => plast'.res = "ok"
              /\ plast'.op = "wait" => plast'.res \in {"ok", "TimeoutError"})]_vars

\* C14: once a wait() has returned on a process started with on_exit, on_exit
\* has been invoked exactly once, however many wait() calls were made.
OnExitCount == Len(SelectSeq(callbacks, LAMBDA c : c.cb = "on_exit"))
C14_OnExitExactlyOnce ==
  (rp # None /\ rp[1].on_exit /\ plast.op = "wait" /\ plast.res = "ok") => OnExitCount = 1

\* C15: no on_stdout or on_stderr invocation of a process happens after its
\* on_exit has been invoked.
C15_NoOutputAfterExit ==
  \A i, j \in 1..Len(callbacks) :
    (i < j /\ callbacks[i].cb = "on_exit") => callbacks[j].cb = "on_exit"

\* C16: whenever wait() or get_result() returns, the exit_code it returns is
\* the integer the shell stores in the exit-code file.
C16_ExitCodeIsStoredInteger ==
  (plast.op \in {"wait", "get_result"} /\ plast.res = "ok")
     => plast.exit_code = Some(job.code)

\* C17: kill() returns successfully and the process is not running once it has
\* returned.
C17_KillTerminates ==
  [][(plast'.op = "kill" /\ plast' # plast)
        => (plast'.res = "ok" /\ job'.phase = "done")]_vars

\* C18: a wait() that returns after kill() was called on an unfinished process
\* reports a non-zero exit_code.
C18_WaitAfterKillNonZero ==
  (killed /\ plast.op = "wait" /\ plast.res = "ok")
     => (plast.exit_code # None /\ plast.exit_code[1] # 0)

\* C19: once a close() of a sandbox has ended, the background tasks the sandbox
\* owns have been cancelled: its port scanner task is no longer alive.
C19_CloseCancelsTasks ==
  \A o \in Objs : (last.op = "close" /\ last.o = o) => ~scanner[o]

\* C21: an entry that is present when the watcher starts, and is not removed
\* afterwards, never produces a Create event.
C21_NoCreateForExisting ==
  \A e \in cycle.emitted : e.operation = "Create" => e.name \notin kept

\* C22: stop() raises no error, whether the watcher is started, stopped
\* already or was never started.
C22_StopRaisesNothing == wlast.op = "stop" => wlast.res = "ok"

\* C23: a poll cycle emits exactly one Create for every name in the listing
\* and not in the snapshot, exactly one Remove for every name in the snapshot
\* and not in the listing, and nothing for a name in both.
EntryNames(lines) == {l.name : l \in {k \in lines : k.parts >= 9 /\ k.name \notin {".", ".."}}}
EventCount(events, n, operation) ==
  Cardinality({e \in events : e.name = n /\ e.operation = operation})
C23_EventsFollowNames ==
  wtask.state = "polling" =>
    LET emitted == Emitted(Listing(dir), wtask.previous_state)
        previous == EntryNames(wtask.previous_state)
        current == Present(dir)
    IN \A n \in Names :
         /\ EventCount(emitted, n, "Create") = IF n \in current \ previous THEN 1 ELSE 0
         /\ EventCount(emitted, n, "Remove") = IF n \in previous \ current THEN 1 ELSE 0

\* C24: when a poll cycle has seen a file created after start, every listener
\* registered at that cycle has been given a Create event for it.
C24_CreateReachesListeners ==
  \A e \in cycle.emitted :
    (e.operation = "Create" /\ e.name \notin atStart) =>
      \A l \in cycle.listeners :
        \E i \in 1..Len(delivered) :
          /\ delivered[i].listener = l
          /\ delivered[i].event.name = e.name /\ delivered[i].event.operation = "Create"

\* C25: every event a poll cycle emits is given to every listener registered
\* at that cycle.
C25_EveryListenerInvoked ==
  \A e \in cycle.emitted : \A l \in cycle.listeners :
    Cardinality({i \in 1..Len(delivered) : delivered[i] = [listener |-> l, event |-> e]}) >= 1

\* C26: when a cleanup() is through, every distinct task registered at its
\* call has been run exactly once, a task registered later before one
\* registered earlier, whichever of them raised.
RunsOf(t) == Cardinality({i \in 1..Len(ran) : ran[i].task = t})
C26_EachTaskOnceInReverse ==
  cleaning = Some(0) =>
    /\ \A i \in 1..Len(atCall) : RunsOf(atCall[i]) = 1
    /\ \A i, j \in 1..Len(ran) :
         i < j => \E a, b \in 1..Len(atCall) :
                    a > b /\ atCall[a] = ran[i].task /\ atCall[b] = ran[j].task

\* C27: a read that follows a successful write(path, t) returns exactly t.
C27_ReadReturnsWritten ==
  [][(flast.op = "write" /\ flast.res.err = "" /\ flast'.op = "read")
        => flast'.res = Returned(flast.arg)]_vars

\* C28: a make_dir that follows a successful make_dir of the same path
\* succeeds, and a remove that follows a successful remove of the same path
\* raises a not-found error.
IsNotFound(res) == res.err \in {"FilesystemException", "FileNotFoundError"}
C28_SecondMakeDirAndRemove ==
  [][/\ (flast.op = "make_dir" /\ flast.res.err = "" /\ flast'.op = "make_dir")
          => flast'.res.err = ""
     /\ (flast.op = "remove" /\ flast.res.err = "" /\ flast'.op = "remove")
          => IsNotFound(flast'.res)]_vars

\* C29: the chunks passed to on_stdout are the content of the output file in
\* file order, none delivered again and none skipped: the first chunk starts at
\* the first byte and every other chunk where the chunk before it ended.
OnStdout == SelectSeq(callbacks, LAMBDA c : c.cb = "on_stdout")
C29_ChunksInFileOrder ==
  \A i \in 1..Len(OnStdout) :
    OnStdout[i].arg[1] = IF i = 1 THEN 1 ELSE OnStdout[i - 1].arg[2] + 1

\* C30: two processes started in the same sandbox have distinct process_ids,
\* and the exit code read through a handle is the one of its own process.
C30_DistinctIdsAndFiles ==
  /\ \A p, q \in Procs :
       (p # q /\ handles[p] # None /\ handles[q] # None)
          => handles[p][1].process_id # handles[q][1].process_id
  /\ \A p \in Procs :
       seen[p] # None => (handles[p][1].phase = "done" /\ seen[p] = Some(handles[p][1].code))

\* C31: a poll whose exec raises or exits non-zero gives no event to the
\* handler and leaves the snapshot as it was, the task keeps polling, and the
\* next poll that succeeds reports as Create every name that is in the
\* directory and not in the snapshot.
SnapshotNames == {l.name : l \in wtask.previous_state}
C31_FailedPollIsSkipped ==
  [][/\ (/\ wtask.state = "polling" /\ cycle'.failed /\ wlast' = wlast
         /\ (cycle' # cycle \/ wtask' # wtask))
          => (/\ cycle'.emitted = {}
              /\ delivered' = delivered
              /\ wtask'.previous_state = wtask.previous_state
              /\ wtask'.state = "polling")
     /\ (cycle.failed /\ ~cycle'.failed)
          => \A n \in Present(dir) \ SnapshotNames :
               \E e \in cycle'.emitted : e.name = n /\ e.operation = "Create"]_vars
C31_Witness ==
  /\ cycle.failed /\ wtask.state = "polling"
  /\ "f" \in SnapshotNames
  /\ "g" \in Present(dir) \ SnapshotNames

\* C32: an error in one iteration of the output-streaming task or of the
\* port-scanner task is contained: after the iteration the task is still
\* running its loop and holds no exception.
C32_IterationErrorContained ==
  \A t \in BgTasks :
    (bglast.task = t /\ bglast.fault # "") => (bg[t].state # "failed" /\ bg[t].exception = "")

\* C33: start with a cwd that does not exist returns no process handle.
C33_MissingCwdGivesNoHandle ==
  \A p \in Procs : handles[p] # None => CwdExists(handles[p][1].cwd)

\* C34: every user callback, synchronous or asynchronous, has run to
\* completion once for each event it was invoked for.
C34_CallbackBodyRuns == \A c \in Sites : completed[c] = invoked[c]

\* C35: build_image returns an image id exactly when some chunk of the build
\* stream carried aux.ID, and then the id of the last such chunk; when the
\* stream ended without one, or the runtime raised, it fails with the
\* build-failure error of its class.
AuxIds(chunks) == SelectSeq(chunks, LAMBDA c : "aux" \in c.keys /\ "ID" \in c.aux)
C35_LastAuxIdOrBuildFailure ==
  building.phase = "done" =>
    LET ids == AuxIds(building.chunks)
    IN /\ building.res.err = "" <=> (ids # <<>> /\ ~building.docker_error)
       /\ building.res.err = "" => building.res.value = Some(ids[Len(ids)].ID)
       /\ building.res.err # "" => building.res.err = BuildError(building.impl)

\* C36: for every entry container_port: host_port of the requested mapping,
\* the created container exposes container_port and binds it to host_port.
C36_PortsBoundAsRequested ==
  container_config # None =>
    LET c == container_config[1]
    IN \A i \in 1..Len(c.ports) :
         /\ Tcp(c.ports[i][1]) \in c.ExposedPorts
         /\ Tcp(c.ports[i][1]) \in DOMAIN c.PortBindings
         /\ c.PortBindings[Tcp(c.ports[i][1])] = c.ports[i][2]

\* C37: a terminal's exit handling runs exactly once: a terminal that start
\* made and that is over (it was not handed back running) has had on_exit
\* invoked once when one was given, its subscriptions released as often as
\* they were made, and its finished future resolved.
C37_ExitHandledOnce ==
  \A i \in 1..Len(terminals) :
    LET t == terminals[i]
    IN ~t.returned =>
         /\ t.on_exit => t.on_exit_calls = 1
         /\ t.unsubscribed = (IF t.subscribed THEN 1 ELSE 0)
         /\ t.finished = "resolved"

\* C38: the handle get(pid) returns for a live process started with start has
\* the pid of the original handle and names the same process, that is the
\* same output and exit-code files.
C38_RetrievedHandleSameFiles ==
  \A p \in Procs :
    retrieved[p] # None =>
      /\ retrieved[p][1].pid = handles[p][1].pid
      /\ retrieved[p][1].process_id = handles[p][1].process_id

\* C39: an object gives up its container reference only in a step after which
\* the container it referenced is gone from the runtime.
C39_HandleDroppedOnlyWhenGone ==
  [][\A o \in Objs :
       (handle[o] # None /\ handle'[o] = None)
          => ~CidLive(containers', handle[o][1].cid)]_vars

====
